---------------------------- MODULE Spec2Model ----------------------------
(***************************************************************************)
(* A model of the journal logging facility (the Logger pipeline) and of    *)
(* the journald log server (token store, ingress authentication,           *)
(* statistics).                                                            *)
(*                                                                         *)
(* Logger: src/journal.go and src/unnamed/part_001 (getMsgCode,            *)
(* rotateFile, rotationDate, pushToLedger, write).                         *)
(* Server: src/server/utils.go, src/server/logserver_tokens.go,            *)
(* src/server/server_statistics.go.                                        *)
(***************************************************************************)
EXTENDS Integers, Sequences, FiniteSets, TLC

(***************************************************************************)
(* Bounds of the model.                                                    *)
(***************************************************************************)
\* capacity of the ledger channel; the code uses 1000 (journal.go:68), the
\* model a small capacity so that a full channel is reached
LedgerCap == 1
\* number of entries built over a run (ingress calls and self-logged entries)
MaxEntries == 2
\* number of failing writes to a remote while the Logger is active
MaxFailures == 1
\* number of failing attempts to open a log file
MaxOpenFailures == 1
\* the local date advances from day 0 to day MaxDay
MaxDay == 1
\* number of RPCs received by the log server over a run
MaxRpc == 2
\* number of AddToken and RemoveToken calls over a run
MaxTokenOps == 2
\* the hours that pass on the clock
MaxHour == 1
\* number of calls of Log, LogFields and the closures over a run of SpecCodes
MaxCalls == 1
\* number of entries the Logger logs itself over a run of SpecFailing
MaxChain == 2
MaxLoggers == 3
MaxAdmin == 3

(***************************************************************************)
(* Program constants.                                                      *)
(***************************************************************************)
ROT_NONE == 0
ROT_DAILY == 1
ROT_WEEKLY == 2
ROT_MONTHLY == 3
ROT_ANNUALLY == 4
\* the seconds between two dates that follow each other
DaySeconds == 86400
\* the seconds the long wait of the rotation task ends before its target
Margin == 60
\* the seconds of the short wait of the rotation task
PollSeconds == 1
OUT_FILE == 0
OUT_STDOUT == 1
OUT_FILE_AND_STDOUT == 2
COL_DATE_YYMMDD == 0
COL_DATE_YYMMDD_HHMMSS == 1
COL_DATE_YYMMDD_HHMMSS_NANO == 2
COL_TIMESTAMP == 3
COL_SERVICE == 4
COL_INSTANCE == 5
COL_CALLER == 6
COL_MSG_TYPE_SHORT == 7
COL_MSG_TYPE_INT == 8
COL_MSG_TYPE_STR == 9
COL_MSG == 10
COL_FILE == 11
COL_LINE == 12
\* the length of the arrays LogsParsed and LogsParsedBytes of a Statistic
NumHours == 24

\* defaultCols (part_001:543-544)
defaultCols ==
  <<COL_DATE_YYMMDD_HHMMSS_NANO, COL_SERVICE, COL_INSTANCE, COL_MSG_TYPE_SHORT,
    COL_MSG_TYPE_INT, COL_MSG_TYPE_STR, COL_MSG, COL_FILE, COL_LINE>>

\* the caller threads of the Logger
Callers == {"c1", "c2"}
\* names under which remote destinations can be registered
Remotes == {"r1", "r2"}
\* no admin call on the destinations is under way
AdminIdle == [at |-> "idle", op |-> "none", name |-> "none"]
\* the empty date string "" of rotateFile's prev, and a nil *os.File
NoDate == -1
NoFile == -1
\* the header line of a log file (entry lines are entry ids from 1 on)
HeaderLine == 0

VARIABLES
  \* ---- Logger (journal.go: type logger) ----
  config,        \* [Out, Rotation, JSON]
  active,        \* logger.active
  wg,            \* logger.wg, the in-flight counter
  ledger,        \* logger.ledger, a buffered channel: sequence of entry ids
  mu,            \* logger.mu: "free" or the task that holds it
  logfile,       \* logger.logfile: the date of the file the handle is on, or NoFile
  logfileOpen,   \* whether the handle logger.logfile has not been closed
  stdoutSet,     \* logger.stdout # nil
  remoteWriters, \* logger.remoteWriters: the registered names
  cancelled,     \* the cancellation signal of the two tasks has been given
  \* ---- environment of the Logger ----
  today,         \* the local date
  clock,         \* the local time of day, in seconds since midnight
  rotWakeAt,     \* when the rotation task's timed wait ends, in seconds since
                 \* midnight of date 0
  disk,          \* the log folder: date -> the lines of <stem>_<date>.log
  stdoutLines,   \* what stdout has received
  handed,        \* remote name -> entries handed to its Write
  \* ---- tasks of the Logger ----
  newPc,         \* New: "rotateFile", "ready", "write", "returned"
  readySignals,  \* number of values sent on rotateFile's ready channel
  rotPc,         \* rotation task: "off", "loop", "log", "swap", "sleep", "stopped"
  rotPrev,       \* rotation task's prev
  rotNext,       \* rotation task's next
  rotCurrent,    \* rotation task's current (the date of the file being opened)
  rotIsNew,      \* rotation task's isNew
  rotTransit,    \* inTransit of the rotation task's self-call l.Log
  openFailures,  \* failed opens so far
  wrPc,          \* writer task: "off", "select", "got", "locked", "stopped"
  wrEntry,       \* the entry the writer task received
  quitPc,        \* Quit: "idle", "wait", "lock", "returned"
  callPc,        \* per caller: "idle", "pushing"
  callEntry,     \* per caller: the entry of the call in progress
  callTransit,   \* per caller: pushToLedger's inTransit
  senders,       \* entries whose `go func() { l.ledger <- entry }()` has not sent
  \* ---- bookkeeping of the run ----
  nextId,        \* next entry id
  entries,       \* id -> caller: the entries built so far
  accepted,      \* ids for which wg.Add(1) was executed
  lateCalls,     \* ids of ingress calls that started after Quit returned
  failures,      \* failing remote writes so far while active
  selfCalls,     \* self-calls l.Log("system", 1, ...) made by the writer task
  remoteErrors,  \* errors returned by remote writes so far
  doneCount,     \* number of wg.Done() executed
  codeMaps,      \* the maps of codes of the process: reference -> map[int]Code
  loggers,       \* the Loggers of the process: for each its field codes, a reference
  lastCall,      \* the last call of the Logger's API, with what it returned
  content,       \* for each entry id, the columns of the entry
  \* ---- log server (server/utils.go: type logServer) ----
  tokens,        \* logServer.tokens: key -> token
  tokenFile,     \* the lines of the token file
  stats,         \* logServer.stats: key -> Statistic
  smu,           \* the logServer mutex: "free" or who holds it
  pendingStats,  \* `go l.GatherStatistics(...)` calls that have not run yet
  rpcPc,         \* the RPC in progress: "idle", "intercept" or "handler"
  rpcReq,        \* the request of the RPC in progress
  rpcResp,       \* the answers given to the RPCs so far, in order
  rpcCount,      \* RPCs received so far
  tokSnap,       \* logServer.tokens before the last successful AddToken
  fileSnap,      \* the token file before the last successful AddToken
  lastOps,       \* the AddToken and RemoveToken calls so far, with their outcomes
  srvPc,         \* the log server process: "running" or "stopped"
  statsFile,     \* the contents of the statistics file
  adminPc,       \* the admin call on the destinations: where it is, and its arguments
  hour,          \* time.Now().Hour()
  calls,         \* for each key, the RemoteLog calls made with it so far
  srvNew,        \* server.New: where it is, the listeners that are open, the
                 \* tasks that run, and the error it returned
  adminLog       \* the admin commands executed so far, with their responses

loggerVars == <<config, active, wg, ledger, mu, logfile, logfileOpen, stdoutSet,
                remoteWriters, cancelled, today, clock, rotWakeAt, disk, stdoutLines, handed,
                newPc, readySignals, rotPc, rotPrev, rotNext, rotCurrent,
                rotIsNew, rotTransit, openFailures, wrPc, wrEntry, quitPc, callPc,
                callEntry, callTransit, senders, nextId, entries, accepted,
                lateCalls, failures, selfCalls, remoteErrors, doneCount, codeMaps,
                loggers, lastCall, content>>

serverVars == <<tokens, tokenFile, stats, smu, pendingStats, rpcPc, rpcReq,
                rpcResp, rpcCount, tokSnap, fileSnap, lastOps, srvPc, statsFile,
                adminPc, hour, calls, srvNew>>

vars == <<loggerVars, serverVars, adminLog>>

(***************************************************************************)
(* Helpers of the Logger.                                                  *)
(***************************************************************************)
\* Dates are day numbers.  Day 0 is a Sunday and the last day of a year, day 1
\* a Monday and the first day of the next year; the dates of the model are
\* within the first month of that year.
\* time.Weekday of the date d: 0 is Sunday
Weekday(d) == d % 7

\* the first day of the month, and of the year, after that of the date d
\* (AddDate(0, 1, 0) and AddDate(1, 0, 0), formatted without the day)
firstOfNextMonth(d) == IF d <= 0 THEN 1 ELSE 32
firstOfNextYear(d) == IF d <= 0 THEN 1 ELSE 366

\* rotationDate(rotation, offset) (part_001:126-149) evaluated when the local
\* date is `now`: the monthly and the annual date do not depend on the offset
rotationDate(rotation, offset, now) ==
  CASE rotation = ROT_DAILY -> now + offset
    [] rotation = ROT_WEEKLY ->
         LET shift == now + offset * 7
             day == Weekday(shift)
         IN IF day = 0 THEN shift - 6 ELSE shift - (day - 1)
    [] rotation = ROT_MONTHLY -> firstOfNextMonth(now)
    [] rotation = ROT_ANNUALLY -> firstOfNextYear(now)
    [] OTHER -> now

\* the file <folder>/<stem>_<date>.log exists
fileExistsNever(d) == FALSE

\* os.Stat(newLogfile) finds the file (part_001:69)
FileExists(d) == d \in DOMAIN disk

\* the folder after a successful os.OpenFile(name, O_CREATE|O_WRONLY|O_APPEND)
OpenCreate(d) == IF FileExists(d) THEN disk ELSE (d :> <<>>) @@ disk

\* WriteString on a handle on the file of date d of folder dk; a write on a
\* closed handle returns an error, which every caller ignores
WriteString(dk, d, isOpen, line) ==
  IF d # NoFile /\ isOpen /\ d \in DOMAIN dk
    THEN [dk EXCEPT ![d] = Append(@, line)]
    ELSE dk

\* the entries pushToLedger builds when called k times in a row by `who`
NewEntries(k, who) == [i \in 1..k |-> who]

\* a pushToLedger that takes every Logger for an active one
readActiveIgnoringQuit == TRUE

\* pushToLedger's `inTransit := l.active`
readActive == active

\* the entries ids in increasing order
RECURSIVE InOrder(_)
InOrder(ids) ==
  IF ids = {} THEN <<>>
  ELSE LET m == CHOOSE x \in ids : \A y \in ids : x <= y
       IN <<m>> \o InOrder(ids \ {m})

\* a send made by the caller itself, `l.ledger <- entry`, which waits for room
blockingSend(ids) ==
  /\ Len(ledger) + Cardinality(ids) <= LedgerCap
  /\ ledger' = ledger \o InOrder(ids)
  /\ UNCHANGED senders

\* a pushToLedger that spawns no task for the entry
noSend(ids) == UNCHANGED <<senders, ledger>>

\* `go func() { l.ledger <- entry }()`: the send is left to a task of its own
spawnSend(ids) == senders' = senders \cup ids /\ UNCHANGED ledger

\* k self-calls l.Log(who, 1, ...) made by a task of the Logger itself, from a
\* counter value of wgBase: each call reads l.active, adds 1 to the in-flight
\* counter and spawns its send.  They are one step of the calling task.
selfLog(k, who, wgBase) ==
  IF readActive /\ k > 0
    THEN /\ wg' = wgBase + k
         /\ accepted' = accepted \cup (nextId..(nextId + k - 1))
         /\ spawnSend(nextId..(nextId + k - 1))
         /\ nextId' = nextId + k
         /\ entries' = entries \o NewEntries(k, who)
    ELSE /\ wg' = wgBase
         /\ UNCHANGED <<accepted, senders, ledger, nextId, entries>>

(***************************************************************************)
(* The code table (part_001:465-540, journal.go:105-111).                  *)
(***************************************************************************)
\* Code{Error, Type}
Code(error, type) == [Error |-> error, Type |-> type]

\* defaultCodes (part_001:473-540)
defaultCodes ==
     0 :> Code(FALSE, "Notification")
  @@ 1 :> Code(TRUE, "GeneralError")
  @@ 2 :> Code(TRUE, "ConfigurationError")
  @@ 3 :> Code(TRUE, "FailedAction")
  @@ 4 :> Code(TRUE, "UserError")
  @@ 10 :> Code(TRUE, "CatastrophicFailure")
  @@ 100 :> Code(FALSE, "HTTP-StatusContinue")
  @@ 101 :> Code(FALSE, "HTTP-StatusSwitchingProtocols")
  @@ 102 :> Code(FALSE, "HTTP-StatusProcessing")
  @@ 200 :> Code(FALSE, "HTTP-StatusOK")
  @@ 201 :> Code(FALSE, "HTTP-StatusCreated")
  @@ 202 :> Code(FALSE, "HTTP-StatusAccepted")
  @@ 203 :> Code(FALSE, "HTTP-StatusNonAuthoritativeInfo")
  @@ 204 :> Code(FALSE, "HTTP-StatusNoContent")
  @@ 205 :> Code(FALSE, "HTTP-StatusResetContent")
  @@ 206 :> Code(FALSE, "HTTP-StatusPartialContent")
  @@ 207 :> Code(FALSE, "HTTP-StatusMultiStatus")
  @@ 208 :> Code(FALSE, "HTTP-StatusAlreadyReported")
  @@ 226 :> Code(FALSE, "HTTP-StatusIMUsed")
  @@ 300 :> Code(FALSE, "HTTP-StatusMultipleChoices")
  @@ 301 :> Code(FALSE, "HTTP-StatusMovedPermanently")
  @@ 302 :> Code(FALSE, "HTTP-StatusFound")
  @@ 303 :> Code(FALSE, "HTTP-StatusSeeOther")
  @@ 304 :> Code(FALSE, "HTTP-StatusNotModified")
  @@ 305 :> Code(FALSE, "HTTP-StatusUseProxy")
  @@ 307 :> Code(FALSE, "HTTP-StatusTemporaryRedirect")
  @@ 308 :> Code(FALSE, "HTTP-StatusPermanentRedirect")
  @@ 400 :> Code(TRUE, "HTTP-StatusBadRequest")
  @@ 401 :> Code(TRUE, "HTTP-StatusUnauthorized")
  @@ 402 :> Code(TRUE, "HTTP-StatusPaymentRequired")
  @@ 403 :> Code(TRUE, "HTTP-StatusForbidden")
  @@ 404 :> Code(TRUE, "HTTP-StatusNotFound")
  @@ 405 :> Code(TRUE, "HTTP-StatusMethodNotAllowed")
  @@ 406 :> Code(TRUE, "HTTP-StatusNotAcceptable")
  @@ 407 :> Code(TRUE, "HTTP-StatusProxyAuthRequired")
  @@ 408 :> Code(TRUE, "HTTP-StatusRequestTimeout")
  @@ 409 :> Code(TRUE, "HTTP-StatusConflict")
  @@ 410 :> Code(TRUE, "HTTP-StatusGone")
  @@ 411 :> Code(TRUE, "HTTP-StatusLengthRequired")
  @@ 412 :> Code(TRUE, "HTTP-StatusPreconditionFailed")
  @@ 413 :> Code(TRUE, "HTTP-StatusRequestEntityTooLarge")
  @@ 414 :> Code(TRUE, "HTTP-StatusRequestURITooLong")
  @@ 415 :> Code(TRUE, "HTTP-StatusUnsupportedMediaType")
  @@ 416 :> Code(TRUE, "HTTP-StatusRequestedRangeNotSatisfiable")
  @@ 417 :> Code(TRUE, "HTTP-StatusExpectationFailed")
  @@ 418 :> Code(TRUE, "HTTP-StatusTeapot")
  @@ 422 :> Code(TRUE, "HTTP-StatusUnprocessableEntity")
  @@ 423 :> Code(TRUE, "HTTP-StatusLocked")
  @@ 424 :> Code(TRUE, "HTTP-StatusFailedDependency")
  @@ 426 :> Code(TRUE, "HTTP-StatusUpgradeRequired")
  @@ 428 :> Code(TRUE, "HTTP-StatusPreconditionRequired")
  @@ 429 :> Code(TRUE, "HTTP-StatusTooManyRequests")
  @@ 431 :> Code(TRUE, "HTTP-StatusRequestHeaderFieldsTooLarge")
  @@ 451 :> Code(TRUE, "HTTP-StatusUnavailableForLegalReasons")
  @@ 500 :> Code(TRUE, "HTTP-StatusInternalServerError")
  @@ 501 :> Code(TRUE, "HTTP-StatusNotImplemented")
  @@ 502 :> Code(TRUE, "HTTP-StatusBadGateway")
  @@ 503 :> Code(TRUE, "HTTP-StatusServiceUnavailable")
  @@ 504 :> Code(TRUE, "HTTP-StatusGatewayTimeout")
  @@ 505 :> Code(TRUE, "HTTP-StatusHTTPVersionNotSupported")
  @@ 506 :> Code(TRUE, "HTTP-StatusVariantAlsoNegotiates")
  @@ 507 :> Code(TRUE, "HTTP-StatusInsufficientStorage")
  @@ 508 :> Code(TRUE, "HTTP-StatusLoopDetected")
  @@ 510 :> Code(TRUE, "HTTP-StatusNotExtended")
  @@ 511 :> Code(TRUE, "HTTP-StatusNetworkAuthenticationRequired")
  @@ 999 :> Code(TRUE, "Exception/Unintended")

\* a nil error
Nil == [nil |-> TRUE, msg |-> <<>>]

\* no call of the API has been made
NoCall ==
  [api |-> "none", code |-> 0, arg |-> <<>>, name |-> "", active |-> TRUE,
   err |-> Nil, entry |-> 0, submitted |-> {}, logger |-> 1]

\* the reference that the package variable defaultCodes holds (part_001:473):
\* a Go map is a reference to the map made by the literal
defaultCodesRef == "defaultCodes"

\* l.codes of the n-th Logger: the map its field refers to
codesOf(n) == codeMaps[loggers[n].codes]

\* l.codes of the first Logger of the process
codes == codesOf(1)

\* `resp, ok := m[code]; if !ok { return Code{true, "UNKOWN"} }; return resp`
\* (part_001:22-26)
lookup(m, code) == IF code \notin DOMAIN m THEN Code(TRUE, "UNKOWN") ELSE m[code]

\* getMsgCode (part_001:20-27) of the n-th Logger
getMsgCodeOf(n, code) == lookup(codesOf(n), code)

\* getMsgCode (part_001:20-27) of the first Logger
getMsgCode(code) == getMsgCodeOf(1, code)

\* a pushToLedger that returns an error whatever the code
errorAlways(isErr, fmsg) == [nil |-> FALSE, msg |-> fmsg]

\* `if isErr { return fmt.Errorf("%s", fmsg) }; return nil` (part_001:311-316)
errorIf(isErr, fmsg) == IF isErr THEN [nil |-> FALSE, msg |-> fmsg] ELSE Nil

\* a UseCustomCodes that takes every supplied code
customisableAny(code) == TRUE

\* `code > 1 && code < 999` (journal.go:107)
customisable(code) == code > 1 /\ code < 999
(***************************************************************************)
(* New (journal.go:31-80) and the start of the two tasks.                  *)
(***************************************************************************)
Configs ==
  [Out : {OUT_FILE, OUT_STDOUT, OUT_FILE_AND_STDOUT},
   Rotation : {ROT_NONE, ROT_DAILY},
   JSON : BOOLEAN]

FileOut == config.Out \in {OUT_FILE, OUT_FILE_AND_STDOUT}

\* the fields of a Logger that no task has touched (journal.go:62-71), with
\* the activity switch and the place New is at, the log folder dk and the
\* time of day t
loggerStructAt(isActive, pc, dk, t) ==
  /\ active = isActive
  /\ wg = 0
  /\ ledger = <<>>
  /\ mu = "free"
  /\ logfile = NoFile
  /\ logfileOpen = FALSE
  /\ stdoutSet = FALSE
  /\ remoteWriters = {}
  /\ cancelled = FALSE
  /\ today = 0
  /\ clock = t
  /\ rotWakeAt = 0
  /\ disk = dk
  /\ stdoutLines = <<>>
  /\ handed = [r \in Remotes |-> <<>>]
  /\ newPc = pc
  /\ readySignals = 0
  /\ rotPc = "off"
  /\ rotPrev = NoDate
  /\ rotNext = NoDate
  /\ rotCurrent = NoDate
  /\ rotIsNew = FALSE
  /\ rotTransit = FALSE
  /\ openFailures = 0
  /\ wrPc = "off"
  /\ wrEntry = 0
  /\ quitPc = "idle"
  /\ callPc = [c \in Callers |-> "idle"]
  /\ callEntry = [c \in Callers |-> 0]
  /\ callTransit = [c \in Callers |-> FALSE]
  /\ senders = {}
  /\ nextId = 1
  /\ entries = <<>>
  /\ accepted = {}
  /\ lateCalls = {}
  /\ failures = 0
  /\ selfCalls = 0
  /\ remoteErrors = 0
  /\ doneCount = 0
  /\ codeMaps = (defaultCodesRef :> defaultCodes)
  /\ loggers = <<[codes |-> defaultCodesRef]>>
  /\ lastCall = NoCall
  /\ content = <<>>

\* the same at midnight
loggerStructOn(isActive, pc, dk) == loggerStructAt(isActive, pc, dk, 0)

\* the same with an empty log folder
loggerStruct(isActive, pc) == loggerStructOn(isActive, pc, <<>>)

\* the Logger New has built when it calls Log.rotateFile (journal.go:62-71)
NewLogger == loggerStruct(TRUE, "rotateFile")

\* l.config.Compress, the zero value where a configuration does not set it
compressOn == "Compress" \in DOMAIN config /\ config.Compress

\* compress (part_001:152-224) as it leaves the log folder: the log file d is
\* read into <d>.log.gz, which nothing reads again, and removed
compress(dk, d) == [x \in DOMAIN dk \ {d} |-> dk[x]]

\* compressOld (part_001:227-236): every log file of the folder but the one
\* named after the date `except` is compressed
compressOld(dk, except) == [x \in DOMAIN dk \cap {except} |-> dk[x]]

\* rotateFile up to `<-ready` (part_001:30-51): with stdout only it returns at
\* once, otherwise it starts the rotation task, which sweeps the folder when
\* compression is on, and waits for the ready signal
rotateFile ==
  /\ newPc = "rotateFile"
  /\ IF config.Out = OUT_STDOUT
       THEN /\ stdoutSet' = TRUE
            /\ newPc' = "write"
            /\ UNCHANGED <<rotPc, rotNext, disk>>
       ELSE /\ stdoutSet' = (config.Out = OUT_FILE_AND_STDOUT)
            /\ rotPc' = "loop"
            /\ rotNext' = rotationDate(config.Rotation, 1, today)
            /\ disk' = IF compressOn
                         THEN compressOld(disk, rotationDate(config.Rotation, 0, today))
                         ELSE disk
            /\ newPc' = "ready"
  /\ UNCHANGED <<config, active, wg, ledger, mu, logfile, logfileOpen,
                 remoteWriters, cancelled, today, clock, rotWakeAt,
                 stdoutLines, handed, readySignals, rotPrev, rotCurrent,
                 rotIsNew, rotTransit, openFailures, wrPc, wrEntry, quitPc,
                 callPc, callEntry, callTransit, senders, nextId, entries,
                 accepted, lateCalls, failures, selfCalls, remoteErrors,
                 doneCount, codeMaps, loggers, lastCall, content, serverVars,
                 adminLog>>

\* a rotateFile that returns without waiting for the ready signal
ReadyNotAwaited == TRUE

\* what lets rotateFile return to New: a value on the ready channel
ReadyReceived == readySignals >= 1

\* `<-ready; return quitChan` (part_001:120-121)
rotateFileReturn ==
  /\ newPc = "ready"
  /\ ReadyReceived
  /\ newPc' = "write"
  /\ UNCHANGED <<config, active, wg, ledger, mu, logfile, logfileOpen,
                 stdoutSet, remoteWriters, cancelled, today, clock,
                 rotWakeAt, disk, stdoutLines, handed, readySignals, rotPc,
                 rotPrev, rotNext, rotCurrent, rotIsNew, rotTransit,
                 openFailures, wrPc, wrEntry, quitPc, callPc, callEntry,
                 callTransit, senders, nextId, entries, accepted, lateCalls,
                 failures, selfCalls, remoteErrors, doneCount, codeMaps,
                 loggers, lastCall, content, serverVars, adminLog>>

\* write() starts the writer task and waits for it, and New returns
\* (part_001:321-330, 375-376; journal.go:77-79)
write ==
  /\ newPc = "write"
  /\ wrPc' = "select"
  /\ newPc' = "returned"
  /\ UNCHANGED <<config, active, wg, ledger, mu, logfile, logfileOpen,
                 stdoutSet, remoteWriters, cancelled, today, clock,
                 rotWakeAt, disk, stdoutLines, handed, readySignals, rotPc,
                 rotPrev, rotNext, rotCurrent, rotIsNew, rotTransit,
                 openFailures, wrEntry, quitPc, callPc, callEntry,
                 callTransit, senders, nextId, entries, accepted, lateCalls,
                 failures, selfCalls, remoteErrors, doneCount, codeMaps,
                 loggers, lastCall, content, serverVars, adminLog>>

(***************************************************************************)
(* The rotation task (part_001:44-118).                                    *)
(***************************************************************************)
\* a rotation task that opens a file whenever the date is not that of the
\* previous emission
dueOnEveryNewDate == rotPrev = NoDate \/ today # rotPrev

\* the condition of line 58, with current the local date
rotationDue ==
  rotPrev = NoDate \/ (today # rotPrev /\ today = rotNext)

\* the local time in seconds since midnight of date 0
now == today * DaySeconds + clock

\* `delta := d1.Unix() - d2.Unix() - 60` (lines 62-64): the seconds from
\* midnight of the date current to midnight of the date next, less the margin
delta(next, current) == (next - current) * DaySeconds - Margin

\* one pass of the loop down to a successful os.OpenFile (lines 58-77); the
\* wait of line 103 will last delta seconds from here, the steps down to it
\* taking no time
rotateOpen ==
  /\ rotPc = "loop"
  /\ rotationDue
  /\ rotNext' = rotationDate(config.Rotation, 1, today)
  /\ rotCurrent' = today
  /\ rotIsNew' = ~FileExists(today)
  /\ disk' = OpenCreate(today)
  /\ rotWakeAt' = now + delta(rotNext', today)
  /\ rotPc' = "swap"
  /\ UNCHANGED <<config, active, wg, ledger, mu, logfile, logfileOpen,
                 stdoutSet, remoteWriters, cancelled, today, clock,
                 stdoutLines, handed, newPc, readySignals, rotPrev,
                 rotTransit, openFailures, wrPc, wrEntry, quitPc, callPc,
                 callEntry, callTransit, senders, nextId, entries, accepted,
                 lateCalls, failures, selfCalls, remoteErrors, doneCount,
                 codeMaps, loggers, lastCall, content, serverVars, adminLog>>

\* one pass of the loop down to an os.OpenFile that fails (lines 58-75): the
\* task calls l.Log("system", 1, ...), which reads l.active, and starts over
rotateOpenFail ==
  /\ rotPc = "loop"
  /\ rotationDue
  /\ openFailures < MaxOpenFailures
  /\ nextId <= MaxEntries
  /\ rotNext' = rotationDate(config.Rotation, 1, today)
  /\ openFailures' = openFailures + 1
  /\ rotTransit' = readActive
  /\ rotPc' = "log"
  /\ UNCHANGED <<config, active, wg, ledger, mu, logfile, logfileOpen,
                 stdoutSet, remoteWriters, cancelled, today, clock,
                 rotWakeAt, disk, stdoutLines, handed, newPc, readySignals,
                 rotPrev, rotCurrent, rotIsNew, wrPc, wrEntry, quitPc,
                 callPc, callEntry, callTransit, senders, nextId, entries,
                 accepted, lateCalls, failures, selfCalls, remoteErrors,
                 doneCount, codeMaps, loggers, lastCall, content, serverVars,
                 adminLog>>

\* the rest of the self-call of line 75: pushToLedger after it read l.active
rotateLog ==
  /\ rotPc = "log"
  /\ IF rotTransit
       THEN /\ wg' = wg + 1
            /\ accepted' = accepted \cup {nextId}
            /\ spawnSend({nextId})
       ELSE UNCHANGED <<wg, accepted, senders, ledger>>
  /\ nextId' = nextId + 1
  /\ entries' = entries \o NewEntries(1, "system")
  /\ rotTransit' = FALSE
  /\ rotPc' = "loop"
  /\ UNCHANGED <<config, active, mu, logfile, logfileOpen, stdoutSet,
                 remoteWriters, cancelled, today, clock, rotWakeAt, disk,
                 stdoutLines, handed, newPc, readySignals, rotPrev, rotNext,
                 rotCurrent, rotIsNew, openFailures, wrPc, wrEntry, quitPc,
                 callPc, callEntry, callTransit, lateCalls, failures,
                 selfCalls, remoteErrors, doneCount, codeMaps, loggers,
                 lastCall, content, serverVars, adminLog>>

\* `once.Do(func() { ready <- true })` (line 99)
onceReady(n) == IF n = 0 THEN 1 ELSE n

\* lines 79-86: under the mutex the old handle is closed and the new one
\* installed, a new file gets its header unless JSON is on; without a file
\* to compress prev is set and the ready signal given at once (lines 96-99)
rotateSwap ==
  /\ rotPc = "swap"
  /\ mu = "free"
  /\ logfile' = rotCurrent
  /\ logfileOpen' = TRUE
  /\ disk' = IF rotIsNew /\ ~config.JSON
               THEN WriteString(disk, rotCurrent, TRUE, HeaderLine)
               ELSE disk
  /\ IF compressOn /\ rotPrev # NoDate
       THEN /\ rotPc' = "compress"
            /\ UNCHANGED <<rotPrev, readySignals>>
       ELSE /\ rotPrev' = rotCurrent
            /\ readySignals' = onceReady(readySignals)
            /\ rotPc' = "sleep"
  /\ UNCHANGED <<config, active, wg, ledger, mu, stdoutSet, remoteWriters,
                 cancelled, today, clock, rotWakeAt, stdoutLines, handed,
                 newPc, rotNext, rotCurrent, rotIsNew, rotTransit,
                 openFailures, wrPc, wrEntry, quitPc, callPc, callEntry,
                 callTransit, senders, nextId, entries, accepted, lateCalls,
                 failures, selfCalls, remoteErrors, doneCount, codeMaps,
                 loggers, lastCall, content, serverVars, adminLog>>

\* lines 88-99: after the mutex is released the file of prev is compressed,
\* then prev is set and the ready signal given
rotateCompress ==
  /\ rotPc = "compress"
  /\ disk' = compress(disk, rotPrev)
  /\ rotPrev' = rotCurrent
  /\ readySignals' = onceReady(readySignals)
  /\ rotPc' = "sleep"
  /\ UNCHANGED <<config, active, wg, ledger, mu, logfile, logfileOpen,
                 stdoutSet, remoteWriters, cancelled, today, clock,
                 rotWakeAt, stdoutLines, handed, newPc, rotNext, rotCurrent,
                 rotIsNew, rotTransit, openFailures, wrPc, wrEntry, quitPc,
                 callPc, callEntry, callTransit, senders, nextId, entries,
                 accepted, lateCalls, failures, selfCalls, remoteErrors,
                 doneCount, codeMaps, loggers, lastCall, content, serverVars,
                 adminLog>>

\* the timed waits of lines 102-115 end and the loop starts over
rotateWake ==
  /\ rotPc = "sleep"
  /\ rotPc' = "loop"
  /\ UNCHANGED <<config, active, wg, ledger, mu, logfile, logfileOpen,
                 stdoutSet, remoteWriters, cancelled, today, clock,
                 rotWakeAt, disk, stdoutLines, handed, newPc, readySignals,
                 rotPrev, rotNext, rotCurrent, rotIsNew, rotTransit,
                 openFailures, wrPc, wrEntry, quitPc, callPc, callEntry,
                 callTransit, senders, nextId, entries, accepted, lateCalls,
                 failures, selfCalls, remoteErrors, doneCount, codeMaps,
                 loggers, lastCall, content, serverVars, adminLog>>

\* `case <-time.After(time.Duration(delta) * time.Second)` (line 103): the
\* long wait is over and the short one of line 112 starts
rotateAfterDelta ==
  /\ rotPc = "sleep"
  /\ now >= rotWakeAt
  /\ rotWakeAt' = now + PollSeconds
  /\ rotPc' = "wait"
  /\ UNCHANGED <<config, active, wg, ledger, mu, logfile, logfileOpen,
                 stdoutSet, remoteWriters, cancelled, today, clock, disk,
                 stdoutLines, handed, newPc, readySignals, rotPrev, rotNext,
                 rotCurrent, rotIsNew, rotTransit, openFailures, wrPc,
                 wrEntry, quitPc, callPc, callEntry, callTransit, senders,
                 nextId, entries, accepted, lateCalls, failures, selfCalls,
                 remoteErrors, doneCount, codeMaps, loggers, lastCall,
                 content, serverVars, adminLog>>

\* a pass of the loop whose condition of line 58 is false goes to the short
\* wait of line 112
rotateSkip ==
  /\ rotPc = "loop"
  /\ ~rotationDue
  /\ rotWakeAt' = now + PollSeconds
  /\ rotPc' = "wait"
  /\ UNCHANGED <<config, active, wg, ledger, mu, logfile, logfileOpen,
                 stdoutSet, remoteWriters, cancelled, today, clock, disk,
                 stdoutLines, handed, newPc, readySignals, rotPrev, rotNext,
                 rotCurrent, rotIsNew, rotTransit, openFailures, wrPc,
                 wrEntry, quitPc, callPc, callEntry, callTransit, senders,
                 nextId, entries, accepted, lateCalls, failures, selfCalls,
                 remoteErrors, doneCount, codeMaps, loggers, lastCall,
                 content, serverVars, adminLog>>

\* `case <-time.After(1 * time.Second)` (line 112): the loop starts over
rotateAfterSecond ==
  /\ rotPc = "wait"
  /\ now >= rotWakeAt
  /\ rotPc' = "loop"
  /\ UNCHANGED <<config, active, wg, ledger, mu, logfile, logfileOpen,
                 stdoutSet, remoteWriters, cancelled, today, clock,
                 rotWakeAt, disk, stdoutLines, handed, newPc, readySignals,
                 rotPrev, rotNext, rotCurrent, rotIsNew, rotTransit,
                 openFailures, wrPc, wrEntry, quitPc, callPc, callEntry,
                 callTransit, senders, nextId, entries, accepted, lateCalls,
                 failures, selfCalls, remoteErrors, doneCount, codeMaps,
                 loggers, lastCall, content, serverVars, adminLog>>

\* a rotation task whose short wait is no cancellation point
rotateQuitInLongWait ==
  /\ rotPc = "sleep"
  /\ cancelled
  /\ rotPc' = "stopped"
  /\ UNCHANGED <<config, active, wg, ledger, mu, logfile, logfileOpen,
                 stdoutSet, remoteWriters, cancelled, today, clock,
                 rotWakeAt, disk, stdoutLines, handed, newPc, readySignals,
                 rotPrev, rotNext, rotCurrent, rotIsNew, rotTransit,
                 openFailures, wrPc, wrEntry, quitPc, callPc, callEntry,
                 callTransit, senders, nextId, entries, accepted, lateCalls,
                 failures, selfCalls, remoteErrors, doneCount, codeMaps,
                 loggers, lastCall, content, serverVars, adminLog>>

\* a wait of lines 102-115 ends on the cancellation signal
rotateQuit ==
  /\ \/ rotPc \in {"sleep", "wait"}
     \/ rotPc = "loop" /\ ~rotationDue
  /\ cancelled
  /\ rotPc' = "stopped"
  /\ UNCHANGED <<config, active, wg, ledger, mu, logfile, logfileOpen,
                 stdoutSet, remoteWriters, cancelled, today, clock,
                 rotWakeAt, disk, stdoutLines, handed, newPc, readySignals,
                 rotPrev, rotNext, rotCurrent, rotIsNew, rotTransit,
                 openFailures, wrPc, wrEntry, quitPc, callPc, callEntry,
                 callTransit, senders, nextId, entries, accepted, lateCalls,
                 failures, selfCalls, remoteErrors, doneCount, codeMaps,
                 loggers, lastCall, content, serverVars, adminLog>>

\* the smaller of two numbers
Min(a, b) == IF a <= b THEN a ELSE b

\* time passes while the rotation task is in a timed wait, up to the end of
\* the wait or to the next midnight
Elapse ==
  /\ rotPc \in {"sleep", "wait"}
  /\ now < rotWakeAt
  /\ LET t == Min(rotWakeAt, (today + 1) * DaySeconds)
     IN /\ t < (MaxDay + 1) * DaySeconds
        /\ today' = t \div DaySeconds
        /\ clock' = t % DaySeconds
  /\ UNCHANGED <<config, active, wg, ledger, mu, logfile, logfileOpen,
                 stdoutSet, remoteWriters, cancelled, rotWakeAt, disk,
                 stdoutLines, handed, newPc, readySignals, rotPc, rotPrev,
                 rotNext, rotCurrent, rotIsNew, rotTransit, openFailures,
                 wrPc, wrEntry, quitPc, callPc, callEntry, callTransit,
                 senders, nextId, entries, accepted, lateCalls, failures,
                 selfCalls, remoteErrors, doneCount, codeMaps, loggers,
                 lastCall, content, serverVars, adminLog>>

\* the local date advances
Tick ==
  /\ today < MaxDay
  /\ today' = today + 1
  /\ UNCHANGED <<config, active, wg, ledger, mu, logfile, logfileOpen,
                 stdoutSet, remoteWriters, cancelled, clock, rotWakeAt, disk,
                 stdoutLines, handed, newPc, readySignals, rotPc, rotPrev,
                 rotNext, rotCurrent, rotIsNew, rotTransit, openFailures,
                 wrPc, wrEntry, quitPc, callPc, callEntry, callTransit,
                 senders, nextId, entries, accepted, lateCalls, failures,
                 selfCalls, remoteErrors, doneCount, codeMaps, loggers,
                 lastCall, content, serverVars, adminLog>>

(***************************************************************************)
(* Ingress: Log, LogFields, the NewCaller closures (pushToLedger,          *)
(* part_001:249-317) and RawEntry (journal.go:148-166).                    *)
(***************************************************************************)
\* Log, LogFields or a NewCaller closure: the call starts and reads l.active
\* (part_001:252)
pushToLedgerRead(c) ==
  /\ newPc = "returned"
  /\ callPc[c] = "idle"
  /\ nextId <= MaxEntries
  /\ entries' = Append(entries, c)
  /\ callEntry' = [callEntry EXCEPT ![c] = nextId]
  /\ nextId' = nextId + 1
  /\ callTransit' = [callTransit EXCEPT ![c] = readActive]
  /\ callPc' = [callPc EXCEPT ![c] = "pushing"]
  /\ lateCalls' = IF quitPc = "returned" THEN lateCalls \cup {nextId} ELSE lateCalls
  /\ UNCHANGED <<config, active, wg, ledger, mu, logfile, logfileOpen,
                 stdoutSet, remoteWriters, cancelled, today, clock,
                 rotWakeAt, disk, stdoutLines, handed, newPc, readySignals,
                 rotPc, rotPrev, rotNext, rotCurrent, rotIsNew, rotTransit,
                 openFailures, wrPc, wrEntry, quitPc, senders, accepted,
                 failures, selfCalls, remoteErrors, doneCount, codeMaps,
                 loggers, lastCall, content, serverVars, adminLog>>

\* RawEntry with an entry that has (complete) or lacks a required column: it
\* returns the missing-column error, or reads l.active (journal.go:151-158)
RawEntryRead(c) ==
  /\ newPc = "returned"
  /\ callPc[c] = "idle"
  /\ nextId <= MaxEntries
  /\ \E complete \in BOOLEAN :
       IF complete
         THEN /\ entries' = Append(entries, c)
              /\ callEntry' = [callEntry EXCEPT ![c] = nextId]
              /\ nextId' = nextId + 1
              /\ callTransit' = [callTransit EXCEPT ![c] = readActive]
              /\ callPc' = [callPc EXCEPT ![c] = "pushing"]
              /\ lateCalls' = IF quitPc = "returned" THEN lateCalls \cup {nextId}
                                                     ELSE lateCalls
         ELSE UNCHANGED <<entries, callEntry, nextId, callTransit, callPc, lateCalls>>
  /\ UNCHANGED <<config, active, wg, ledger, mu, logfile, logfileOpen,
                 stdoutSet, remoteWriters, cancelled, today, clock,
                 rotWakeAt, disk, stdoutLines, handed, newPc, readySignals,
                 rotPc, rotPrev, rotNext, rotCurrent, rotIsNew, rotTransit,
                 openFailures, wrPc, wrEntry, quitPc, senders, accepted,
                 failures, selfCalls, remoteErrors, doneCount, codeMaps,
                 loggers, lastCall, content, serverVars, adminLog>>

\* the rest of the call, all in the caller's context: wg.Add(1) and the spawn
\* of the send when inTransit, and the return (part_001:253-316,
\* journal.go:159-165)
pushToLedgerAdd(c) ==
  /\ callPc[c] = "pushing"
  /\ IF callTransit[c]
       THEN /\ wg' = wg + 1
            /\ accepted' = accepted \cup {callEntry[c]}
            /\ spawnSend({callEntry[c]})
       ELSE UNCHANGED <<wg, accepted, senders, ledger>>
  /\ callPc' = [callPc EXCEPT ![c] = "idle"]
  /\ callEntry' = [callEntry EXCEPT ![c] = 0]
  /\ callTransit' = [callTransit EXCEPT ![c] = FALSE]
  /\ UNCHANGED <<config, active, mu, logfile, logfileOpen, stdoutSet,
                 remoteWriters, cancelled, today, clock, rotWakeAt, disk,
                 stdoutLines, handed, newPc, readySignals, rotPc, rotPrev,
                 rotNext, rotCurrent, rotIsNew, rotTransit, openFailures,
                 wrPc, wrEntry, quitPc, nextId, entries, lateCalls, failures,
                 selfCalls, remoteErrors, doneCount, codeMaps, loggers,
                 lastCall, content, serverVars, adminLog>>

\* a send that waits for the sends of the entries built before
SendInCallOrder(e) ==
  /\ e \in senders
  /\ \A x \in senders : e <= x
  /\ Len(ledger) < LedgerCap
  /\ ledger' = Append(ledger, e)
  /\ senders' = senders \ {e}
  /\ UNCHANGED <<config, active, wg, mu, logfile, logfileOpen, stdoutSet,
                 remoteWriters, cancelled, today, clock, rotWakeAt, disk,
                 stdoutLines, handed, newPc, readySignals, rotPc, rotPrev,
                 rotNext, rotCurrent, rotIsNew, rotTransit, openFailures,
                 wrPc, wrEntry, quitPc, callPc, callEntry, callTransit,
                 nextId, entries, accepted, lateCalls, failures, selfCalls,
                 remoteErrors, doneCount, codeMaps, loggers, lastCall,
                 content, serverVars, adminLog>>

\* the task spawned for an entry sends it when the channel has room
\* (part_001:306-308)
Send(e) ==
  /\ e \in senders
  /\ Len(ledger) < LedgerCap
  /\ ledger' = Append(ledger, e)
  /\ senders' = senders \ {e}
  /\ UNCHANGED <<config, active, wg, mu, logfile, logfileOpen, stdoutSet,
                 remoteWriters, cancelled, today, clock, rotWakeAt, disk,
                 stdoutLines, handed, newPc, readySignals, rotPc, rotPrev,
                 rotNext, rotCurrent, rotIsNew, rotTransit, openFailures,
                 wrPc, wrEntry, quitPc, callPc, callEntry, callTransit,
                 nextId, entries, accepted, lateCalls, failures, selfCalls,
                 remoteErrors, doneCount, codeMaps, loggers, lastCall,
                 content, serverVars, adminLog>>

(***************************************************************************)
(* The writer task (part_001:325-373).                                     *)
(***************************************************************************)
\* `case entry := <-l.ledger` (line 333)
writeRecv ==
  /\ wrPc = "select"
  /\ ledger # <<>>
  /\ wrEntry' = Head(ledger)
  /\ ledger' = Tail(ledger)
  /\ wrPc' = "got"
  /\ UNCHANGED <<config, active, wg, mu, logfile, logfileOpen, stdoutSet,
                 remoteWriters, cancelled, today, clock, rotWakeAt, disk,
                 stdoutLines, handed, newPc, readySignals, rotPc, rotPrev,
                 rotNext, rotCurrent, rotIsNew, rotTransit, openFailures,
                 quitPc, callPc, callEntry, callTransit, senders, nextId,
                 entries, accepted, lateCalls, failures, selfCalls,
                 remoteErrors, doneCount, codeMaps, loggers, lastCall,
                 content, serverVars, adminLog>>

\* `case <-quitChan: break Loop` (lines 368-369)
writeQuit ==
  /\ wrPc = "select"
  /\ cancelled
  /\ wrPc' = "stopped"
  /\ UNCHANGED <<config, active, wg, ledger, mu, logfile, logfileOpen,
                 stdoutSet, remoteWriters, cancelled, today, clock,
                 rotWakeAt, disk, stdoutLines, handed, newPc, readySignals,
                 rotPc, rotPrev, rotNext, rotCurrent, rotIsNew, rotTransit,
                 openFailures, wrEntry, quitPc, callPc, callEntry,
                 callTransit, senders, nextId, entries, accepted, lateCalls,
                 failures, selfCalls, remoteErrors, doneCount, codeMaps,
                 loggers, lastCall, content, serverVars, adminLog>>

\* l.mu.Lock() (line 335)
writeLock ==
  /\ wrPc = "got"
  /\ mu = "free"
  /\ mu' = "writer"
  /\ wrPc' = "locked"
  /\ UNCHANGED <<config, active, wg, ledger, logfile, logfileOpen, stdoutSet,
                 remoteWriters, cancelled, today, clock, rotWakeAt, disk,
                 stdoutLines, handed, newPc, readySignals, rotPc, rotPrev,
                 rotNext, rotCurrent, rotIsNew, rotTransit, openFailures,
                 wrEntry, quitPc, callPc, callEntry, callTransit, senders,
                 nextId, entries, accepted, lateCalls, failures, selfCalls,
                 remoteErrors, doneCount, codeMaps, loggers, lastCall,
                 content, serverVars, adminLog>>

\* a loop over the remotes that ends at the first error
handedUntilError(failing) == IF failing = {} THEN remoteWriters ELSE failing

\* the remotes the loop of lines 358-362 hands the entry to, `failing` being
\* those whose Write returns an error
handedTo(failing) == remoteWriters

\* a writer that leaves the in-flight counter as it is
wgNotDone(n) == n

\* l.wg.Done() (line 365)
wgDone(n) == n - 1

\* lines 337-366: stdout, the local file, every remote (a self-call
\* l.Log("system", 1, ...) per error), wg.Done and the unlock
writeEntry ==
  /\ wrPc = "locked"
  /\ \E failing \in SUBSET remoteWriters :
       LET k == Cardinality(failing) IN
       /\ readActive => /\ failures + k <= MaxFailures
                        /\ nextId + k - 1 <= MaxEntries
       /\ stdoutLines' = IF stdoutSet THEN Append(stdoutLines, wrEntry)
                                      ELSE stdoutLines
       /\ disk' = WriteString(disk, logfile, logfileOpen, wrEntry)
       /\ handed' = [r \in Remotes |->
                       IF r \in handedTo(failing) THEN Append(handed[r], wrEntry)
                                                  ELSE handed[r]]
       /\ remoteErrors' = remoteErrors + k
       /\ selfCalls' = selfCalls + k
       /\ failures' = IF readActive THEN failures + k ELSE failures
       /\ selfLog(k, "system", wgDone(wg))
  /\ doneCount' = doneCount + 1
  /\ mu' = "free"
  /\ wrEntry' = 0
  /\ wrPc' = "select"
  /\ UNCHANGED <<config, active, logfile, logfileOpen, stdoutSet,
                 remoteWriters, cancelled, today, clock, rotWakeAt, newPc,
                 readySignals, rotPc, rotPrev, rotNext, rotCurrent, rotIsNew,
                 rotTransit, openFailures, quitPc, callPc, callEntry,
                 callTransit, lateCalls, codeMaps, loggers, lastCall,
                 content, serverVars, adminLog>>

(***************************************************************************)
(* Quit (journal.go:224-244).                                              *)
(***************************************************************************)
\* l.active = false
quitDeactivate ==
  /\ newPc = "returned"
  /\ quitPc = "idle"
  /\ active' = FALSE
  /\ quitPc' = "wait"
  /\ UNCHANGED <<config, wg, ledger, mu, logfile, logfileOpen, stdoutSet,
                 remoteWriters, cancelled, today, clock, rotWakeAt, disk,
                 stdoutLines, handed, newPc, readySignals, rotPc, rotPrev,
                 rotNext, rotCurrent, rotIsNew, rotTransit, openFailures,
                 wrPc, wrEntry, callPc, callEntry, callTransit, senders,
                 nextId, entries, accepted, lateCalls, failures, selfCalls,
                 remoteErrors, doneCount, codeMaps, loggers, lastCall,
                 content, serverVars, adminLog>>

\* l.wg.Wait() returns when the in-flight counter is zero
quitWait ==
  /\ quitPc = "wait"
  /\ wg = 0
  /\ quitPc' = "lock"
  /\ UNCHANGED <<config, active, wg, ledger, mu, logfile, logfileOpen,
                 stdoutSet, remoteWriters, cancelled, today, clock,
                 rotWakeAt, disk, stdoutLines, handed, newPc, readySignals,
                 rotPc, rotPrev, rotNext, rotCurrent, rotIsNew, rotTransit,
                 openFailures, wrPc, wrEntry, callPc, callEntry, callTransit,
                 senders, nextId, entries, accepted, lateCalls, failures,
                 selfCalls, remoteErrors, doneCount, codeMaps, loggers,
                 lastCall, content, serverVars, adminLog>>

\* l.mu.Lock(), l.cancel(), l.logfile.Close(), the deferred Unlock
quitClose ==
  /\ quitPc = "lock"
  /\ mu = "free"
  /\ cancelled' = TRUE
  /\ logfileOpen' = FALSE
  /\ quitPc' = "returned"
  /\ UNCHANGED <<config, active, wg, ledger, mu, logfile, stdoutSet,
                 remoteWriters, today, clock, rotWakeAt, disk, stdoutLines,
                 handed, newPc, readySignals, rotPc, rotPrev, rotNext,
                 rotCurrent, rotIsNew, rotTransit, openFailures, wrPc,
                 wrEntry, callPc, callEntry, callTransit, senders, nextId,
                 entries, accepted, lateCalls, failures, selfCalls,
                 remoteErrors, doneCount, codeMaps, loggers, lastCall,
                 content, serverVars, adminLog>>

\* lines 337-366 with remotes whose Write returns an error for every entry
writeEntryFailing ==
  /\ wrPc = "locked"
  /\ LET k == Cardinality(remoteWriters) IN
       /\ readActive => selfCalls + k <= MaxChain
       /\ stdoutLines' = IF stdoutSet THEN Append(stdoutLines, wrEntry)
                                      ELSE stdoutLines
       /\ disk' = WriteString(disk, logfile, logfileOpen, wrEntry)
       /\ handed' = [r \in Remotes |->
                       IF r \in handedTo(remoteWriters) THEN Append(handed[r], wrEntry)
                                                        ELSE handed[r]]
       /\ remoteErrors' = remoteErrors + k
       /\ selfCalls' = selfCalls + k
       /\ failures' = IF readActive THEN failures + k ELSE failures
       /\ selfLog(k, "system", wgDone(wg))
  /\ doneCount' = doneCount + 1
  /\ mu' = "free"
  /\ wrEntry' = 0
  /\ wrPc' = "select"
  /\ UNCHANGED <<config, active, logfile, logfileOpen, stdoutSet,
                 remoteWriters, cancelled, today, clock, rotWakeAt, newPc,
                 readySignals, rotPc, rotPrev, rotNext, rotCurrent, rotIsNew,
                 rotTransit, openFailures, quitPc, callPc, callEntry,
                 callTransit, lateCalls, codeMaps, loggers, lastCall,
                 content, serverVars, adminLog>>

(***************************************************************************)
(* Destinations (journal.go:169-194).                                      *)
(***************************************************************************)
AddDestination(name) ==
  /\ newPc = "returned"
  /\ mu = "free"
  /\ name \notin remoteWriters
  /\ remoteWriters' = remoteWriters \cup {name}
  /\ UNCHANGED <<config, active, wg, ledger, mu, logfile, logfileOpen,
                 stdoutSet, cancelled, today, clock, rotWakeAt, disk,
                 stdoutLines, handed, newPc, readySignals, rotPc, rotPrev,
                 rotNext, rotCurrent, rotIsNew, rotTransit, openFailures,
                 wrPc, wrEntry, quitPc, callPc, callEntry, callTransit,
                 senders, nextId, entries, accepted, lateCalls, failures,
                 selfCalls, remoteErrors, doneCount, codeMaps, loggers,
                 lastCall, content, serverVars, adminLog>>

RemoveDestination(name) ==
  /\ newPc = "returned"
  /\ mu = "free"
  /\ name \in remoteWriters
  /\ remoteWriters' = remoteWriters \ {name}
  /\ UNCHANGED <<config, active, wg, ledger, mu, logfile, logfileOpen,
                 stdoutSet, cancelled, today, clock, rotWakeAt, disk,
                 stdoutLines, handed, newPc, readySignals, rotPc, rotPrev,
                 rotNext, rotCurrent, rotIsNew, rotTransit, openFailures,
                 wrPc, wrEntry, quitPc, callPc, callEntry, callTransit,
                 senders, nextId, entries, accepted, lateCalls, failures,
                 selfCalls, remoteErrors, doneCount, codeMaps, loggers,
                 lastCall, content, serverVars, adminLog>>

(***************************************************************************)
(* The resources of server.New (utils.go:404-496).                         *)
(***************************************************************************)
\* server.New at the place pc: unixsrv is the admin socket server, listenTCP
\* the TCP listener, dumper the task periodicallyDumpStats and serving the
\* task of rLogger.server.Serve; err names the step that failed
serverAt(pc, unixsrv, listenTCP, tasks, err) ==
  [pc |-> pc, unixsrv |-> unixsrv, listenTCP |-> listenTCP,
   dumper |-> tasks, serving |-> tasks, err |-> err]

\* the server after a New that returned it
serverStarted == serverAt("returned", TRUE, TRUE, TRUE, "")

(***************************************************************************)
(* Specifications of the Logger.                                           *)
(***************************************************************************)
NoServer ==
  /\ tokens = <<>>
  /\ tokenFile = <<>>
  /\ stats = <<>>
  /\ smu = "free"
  /\ pendingStats = {}
  /\ rpcPc = "idle"
  /\ rpcReq = <<>>
  /\ rpcResp = <<>>
  /\ rpcCount = 0
  /\ tokSnap = <<>>
  /\ fileSnap = <<>>
  /\ lastOps = <<>>
  /\ srvPc = "running"
  /\ statsFile = <<>>
  /\ adminPc = AdminIdle
  /\ hour = 0
  /\ calls = <<>>
  /\ srvNew = serverStarted
  /\ adminLog = <<>>

InitLogger == config \in Configs /\ NewLogger /\ NoServer

StartupStep == rotateFile \/ rotateFileReturn \/ write

RotationStep == rotateOpen \/ rotateSwap \/ rotateWake \/ rotateQuit

OpenFailureStep == rotateOpenFail \/ rotateLog

ArchiveStep == rotateCompress

TimedStep == rotateAfterDelta \/ rotateSkip \/ rotateAfterSecond

WriterStep == writeRecv \/ writeQuit \/ writeLock \/ writeEntry

SendStep == \E e \in senders : Send(e)

CallerStep ==
  \E c \in Callers : pushToLedgerRead(c) \/ RawEntryRead(c) \/ pushToLedgerAdd(c)

QuitStep == quitDeactivate \/ quitWait \/ quitClose

NextLogger ==
  \/ StartupStep
  \/ RotationStep
  \/ Tick
  \/ WriterStep
  \/ SendStep
  \/ CallerStep
  \/ QuitStep

\* the Logger with its file rotation, without remote destinations
SpecLogger == InitLogger /\ [][NextLogger]_vars

DestinationStep == \E name \in Remotes : AddDestination(name) \/ RemoveDestination(name)

\* the Logger from New on, with file opens that fail
NextStartup == NextLogger \/ OpenFailureStep

SpecStartup == InitLogger /\ [][NextStartup]_vars

\* the Logger with remote destinations whose writes can fail, on one date
InitRemote ==
  /\ config \in {c \in Configs : c.Rotation = ROT_NONE /\ ~c.JSON}
  /\ NewLogger
  /\ NoServer

NextRemote ==
  \/ StartupStep
  \/ rotateOpen \/ rotateSwap
  \/ WriterStep
  \/ SendStep
  \/ CallerStep
  \/ QuitStep
  \/ DestinationStep

SpecRemote == InitRemote /\ [][NextRemote]_vars

\* a Logger that writes to a file, from New to Quit, with one remote
\* destination that comes and goes
InitQuit ==
  /\ config = [Out |-> OUT_FILE, Rotation |-> ROT_NONE, JSON |-> TRUE]
  /\ NewLogger
  /\ NoServer

\* the scheduler runs every task that can take a step: the writer task, the
\* tasks that send to the ledger, and the caller of Quit
NextQuit ==
  \/ StartupStep
  \/ rotateOpen \/ rotateSwap
  \/ WriterStep
  \/ SendStep
  \/ CallerStep
  \/ QuitStep
  \/ AddDestination("r1") \/ RemoveDestination("r1")

FairQuit ==
  /\ InitQuit
  /\ [][NextQuit]_vars
  /\ WF_vars(WriterStep)
  /\ WF_vars(SendStep)
  /\ WF_vars(QuitStep)


\* the Logger that writes to stdout, with remote destinations whose writes
\* can fail: ingress, the sends, the writer task and Quit
InitInFlight ==
  /\ config = [Out |-> OUT_STDOUT, Rotation |-> ROT_NONE, JSON |-> FALSE]
  /\ NewLogger
  /\ NoServer

NextInFlight ==
  \/ rotateFile \/ write
  \/ WriterStep
  \/ SendStep
  \/ CallerStep
  \/ QuitStep
  \/ DestinationStep

SpecInFlight == InitInFlight /\ [][NextInFlight]_vars

\* a line an earlier run of the program has written
OldEntry == 9

\* log folders New can find: empty, with an empty file of the first date,
\* and with a file of the second date that has its header and an entry
LogFolders ==
  {<<>>, (0 :> <<>>), (1 :> <<HeaderLine, OldEntry>>)}

\* the Logger that writes to a file it rotates daily, in a folder that can
\* hold files of earlier runs
InitHeader ==
  /\ config \in {c \in Configs : c.Out = OUT_FILE /\ c.Rotation = ROT_DAILY}
  /\ \E dk \in LogFolders : loggerStructOn(TRUE, "rotateFile", dk)
  /\ NoServer

\* one caller, the rotation over the dates, the writer task and Quit
NextHeader ==
  \/ StartupStep
  \/ RotationStep
  \/ Tick
  \/ WriterStep
  \/ SendStep
  \/ pushToLedgerRead("c1") \/ pushToLedgerAdd("c1")
  \/ QuitStep

SpecHeader == InitHeader /\ [][NextHeader]_vars

\* the Logger that writes to a file, with each rotation frequency, over the
\* dates, with opens that fail
InitRotation ==
  /\ config \in [Out : {OUT_FILE}, JSON : {FALSE},
                 Rotation : {ROT_NONE, ROT_DAILY, ROT_WEEKLY, ROT_MONTHLY, ROT_ANNUALLY}]
  /\ NewLogger
  /\ NoServer

NextRotation ==
  \/ StartupStep
  \/ RotationStep
  \/ OpenFailureStep
  \/ Tick
  \/ WriterStep
  \/ SendStep
  \/ QuitStep

SpecRotation == InitRotation /\ [][NextRotation]_vars

\* the log folders a Logger with compression may find: those above and one
\* that holds the file of the date of the start with its entries
ArchiveFolders == LogFolders \cup {(0 :> <<HeaderLine, OldEntry>>)}

\* the Logger that writes to a file and compresses, with each rotation
\* frequency, started on each folder
InitArchive ==
  /\ config \in [Out : {OUT_FILE}, JSON : {FALSE}, Compress : {TRUE},
                 Rotation : {ROT_NONE, ROT_DAILY, ROT_WEEKLY, ROT_MONTHLY, ROT_ANNUALLY}]
  /\ \E dk \in ArchiveFolders : loggerStructOn(TRUE, "rotateFile", dk)
  /\ NoServer

NextArchive ==
  \/ StartupStep
  \/ RotationStep
  \/ ArchiveStep
  \/ Tick
  \/ WriterStep
  \/ SendStep
  \/ pushToLedgerRead("c1") \/ pushToLedgerAdd("c1")
  \/ QuitStep

SpecArchive == InitArchive /\ [][NextArchive]_vars

\* the times of day at which a Logger is started
StartTimes == {0, 30, 60, 61, 43200, 86399}

\* the Logger that writes to a file, with each rotation frequency that has
\* boundaries, started at each of the times
InitClock ==
  /\ config \in [Out : {OUT_FILE}, JSON : {FALSE},
                 Rotation : {ROT_DAILY, ROT_WEEKLY, ROT_MONTHLY, ROT_ANNUALLY}]
  /\ \E t \in StartTimes : loggerStructAt(TRUE, "rotateFile", <<>>, t)
  /\ NoServer

\* New, the rotation task with its timed waits, and the time that passes
NextClock ==
  \/ StartupStep
  \/ rotateOpen
  \/ rotateSwap
  \/ TimedStep
  \/ Elapse

SpecClock == InitClock /\ [][NextClock]_vars

\* the Logger that writes to a file with daily rotation, from New to Quit,
\* over the dates, with opens that fail, which the Logger logs
InitCancel ==
  /\ config = [Out |-> OUT_FILE, Rotation |-> ROT_DAILY, JSON |-> FALSE]
  /\ NewLogger
  /\ NoServer

NextCancel ==
  \/ StartupStep
  \/ RotationStep
  \/ OpenFailureStep
  \/ Tick
  \/ WriterStep
  \/ SendStep
  \/ QuitStep

\* the scheduler runs every task that can take a step: the rotation task,
\* the writer task and the tasks that send to the ledger
FairCancel ==
  /\ InitCancel
  /\ [][NextCancel]_vars
  /\ WF_vars(RotationStep)
  /\ WF_vars(OpenFailureStep)
  /\ WF_vars(WriterStep)
  /\ WF_vars(SendStep)

\* the active Logger that writes to stdout, with a caller and a remote
\* destination that, once registered, fails on every write
InitFailing ==
  /\ config = [Out |-> OUT_STDOUT, Rotation |-> ROT_NONE, JSON |-> FALSE]
  /\ NewLogger
  /\ NoServer

NextFailing ==
  \/ rotateFile \/ write
  \/ pushToLedgerRead("c1") \/ pushToLedgerAdd("c1")
  \/ SendStep
  \/ writeRecv \/ writeLock \/ writeEntryFailing
  \/ AddDestination("r1")

SpecFailing == InitFailing /\ [][NextFailing]_vars

(***************************************************************************)
(* The log server: token store (server/logserver_tokens.go), ingress       *)
(* authentication and RemoteLog (server/utils.go), statistics              *)
(* (server/server_statistics.go).  Strings are sequences of characters.    *)
(***************************************************************************)
\* service names sent by clients, and given by administrators
Services == {<<"s">>, <<"S">>, <<"t">>}
AdminServices == {<<"s">>, <<" ", "S">>, <<"t">>}
Instances == {<<"i">>}
\* the values a token can take (64 hex characters in the code)
TokenValues == {<<"t1">>, <<"t2">>}
\* the keys of the request metadata
Fields == {"service", "instance", "token", "ip"}

ToLowerChar(c) ==
  CASE c = "S" -> "s" [] c = "I" -> "i" [] c = "J" -> "j" [] c = "R" -> "r"
    [] c = "T" -> "t" [] c = "H" -> "h" [] OTHER -> c
\* strings.ToLower
ToLower(s) == [k \in DOMAIN s |-> ToLowerChar(s[k])]

\* strings.TrimSpace
RECURSIVE TrimSpace(_)
TrimSpace(s) ==
  IF s = <<>> THEN s
  ELSE IF Head(s) = " " THEN TrimSpace(Tail(s))
  ELSE IF s[Len(s)] = " " THEN TrimSpace(SubSeq(s, 1, Len(s) - 1))
  ELSE s

\* the key of a service instance: lowercased and trimmed service/instance
getCleanKey(service, instance) ==
  ToLower(TrimSpace(service)) \o <<"/">> \o ToLower(TrimSpace(instance))

\* the metadata of a request: none at all, or values for the fields it has
Metadata ==
  {[has |-> h, fields |-> f, service |-> s, instance |-> i, token |-> t, ip |-> "ip"] :
     h \in BOOLEAN, f \in {Fields} \cup {Fields \ {x} : x \in Fields},
     s \in Services, i \in Instances, t \in TokenValues}

\* the inbound requests: metadata, and whether the raw entry has all columns;
\* requests without metadata or without one of the fields differ in nothing else
Requests ==
  {[md |-> m, complete |-> c] :
     m \in {x \in Metadata :
              \/ x.has /\ x.fields = Fields
              \/ x.service = <<"s">> /\ x.token = <<"t1">> /\ (x.has \/ x.fields = Fields)},
     c \in BOOLEAN}

\* the caller's credentials taken from the request metadata: an error when
\* there is no metadata or one of service, instance, token, ip is absent; the
\* key is lowercase(service)/lowercase(instance)
extractCaller(md) ==
  IF ~md.has \/ md.fields # Fields
    THEN [err |-> TRUE, service |-> <<>>, instance |-> <<>>, key |-> <<>>,
          token |-> <<>>, ip |-> ""]
    ELSE [err |-> FALSE, service |-> md.service, instance |-> md.instance,
          key |-> ToLower(md.service) \o <<"/">> \o ToLower(md.instance),
          token |-> md.token, ip |-> md.ip]

\* an Authorize that does not compare the tokens
AuthorizeAnyToken(md) ==
  LET c == extractCaller(md) IN
  IF c.err THEN "cannot extract caller credentials"
  ELSE IF c.key \notin DOMAIN tokens THEN "unknown service/instance"
  ELSE "ok"

\* logServer.Authorize (utils.go:553-575): "ok" for nil, or the error
Authorize(md) ==
  LET c == extractCaller(md) IN
  IF c.err THEN "cannot extract caller credentials"
  ELSE IF c.key \notin DOMAIN tokens THEN "unknown service/instance"
  ELSE IF tokens[c.key] # c.token THEN "bad token"
  ELSE "ok"

\* an interceptor that calls the handler whatever Authorize returned
handlerCalledAnyway(errAuth) == TRUE

\* the interceptor (utils.go:427-432) calls the handler iff errAuth is nil
handlerCalled(errAuth) == errAuth = "ok"

\* a request arrives at the gRPC server
Receive(req) ==
  /\ newPc = "returned"
  /\ rpcPc = "idle"
  /\ rpcCount < MaxRpc
  /\ nextId <= MaxEntries
  /\ rpcReq' = req
  /\ rpcCount' = rpcCount + 1
  /\ rpcPc' = "intercept"
  /\ UNCHANGED <<tokens, tokenFile, stats, smu, pendingStats, rpcResp,
                 tokSnap, fileSnap, lastOps, srvPc, statsFile, adminPc, hour,
                 calls, srvNew, loggerVars, adminLog>>

\* the interceptor: Authorize under the server mutex, then the handler or
\* the error as the answer
intercept ==
  /\ rpcPc = "intercept"
  /\ smu = "free"
  /\ LET errAuth == Authorize(rpcReq.md) IN
     IF handlerCalled(errAuth)
       THEN rpcPc' = "handler" /\ UNCHANGED rpcResp
       ELSE rpcPc' = "idle" /\ rpcResp' = Append(rpcResp, errAuth)
  /\ UNCHANGED <<tokens, tokenFile, stats, smu, pendingStats, rpcReq,
                 rpcCount, tokSnap, fileSnap, lastOps, srvPc, statsFile,
                 adminPc, hour, calls, srvNew, loggerVars, adminLog>>

\* the length of json.Marshal(logEntry.GetEntry()), counted in columns: an
\* entry that RawEntry accepts has the columns of defaultCols, one that it
\* refuses has one less
jsonLen(req) ==
  IF req.complete THEN Len(defaultCols) ELSE Len(defaultCols) - 1

\* logServer.RemoteLog (utils.go:533-550): the credentials are extracted,
\* GatherStatistics is started as a task, the entry goes to the inner
\* Logger's RawEntry (journal.go:148-166)
RemoteLog ==
  /\ rpcPc = "handler"
  /\ LET c == extractCaller(rpcReq.md) IN
     IF c.err
       THEN /\ rpcResp' = Append(rpcResp, "RemoteLog: could not extract caller credentials")
            /\ UNCHANGED <<pendingStats, calls, wg, accepted, senders, ledger, entries,
                           nextId>>
       ELSE /\ pendingStats' = pendingStats \cup
                                 {[id |-> rpcCount, service |-> c.service,
                                   instance |-> c.instance, key |-> c.key,
                                   ip |-> c.ip, bytes |-> jsonLen(rpcReq)]}
            /\ calls' = (c.key :> (IF c.key \in DOMAIN calls THEN calls[c.key] ELSE 0) + 1)
                           @@ calls
            /\ IF ~rpcReq.complete
                 THEN /\ rpcResp' = Append(rpcResp, "RemoteLog: could not process raw log")
                      /\ UNCHANGED <<wg, accepted, senders, ledger, entries, nextId>>
                 ELSE /\ rpcResp' = Append(rpcResp, "ok")
                      /\ entries' = Append(entries, "remote")
                      /\ nextId' = nextId + 1
                      /\ IF readActive
                           THEN /\ wg' = wg + 1
                                /\ accepted' = accepted \cup {nextId}
                                /\ spawnSend({nextId})
                           ELSE UNCHANGED <<wg, accepted, senders, ledger>>
  /\ rpcPc' = "idle"
  /\ UNCHANGED <<tokens, tokenFile, stats, smu, rpcReq, rpcCount, tokSnap, fileSnap,
                 lastOps, srvPc, statsFile, adminPc, hour, srvNew, adminLog>>
  /\ UNCHANGED <<config, active, mu, logfile, logfileOpen, stdoutSet, remoteWriters,
                 cancelled, today, clock, rotWakeAt, disk, stdoutLines, handed, newPc, readySignals,
                 rotPc, rotPrev, rotNext, rotCurrent, rotIsNew, rotTransit,
                 openFailures, wrPc, wrEntry, quitPc, callPc, callEntry, callTransit,
                 lateCalls, failures, selfCalls, remoteErrors, doneCount,
                 codeMaps, loggers, lastCall, content>>

\* the hours of a day, the indices of the arrays of a Statistic
Hours == 0..(NumHours - 1)

\* &Statistic{Service: service, Instance: instance, LogsParsed: [24]int64{},
\* LogsParsedBytes: [24]int64{}} (server_statistics.go:22-29)
newStatistic(service, instance) ==
  [Service |-> service, Instance |-> instance,
   LogsParsed |-> [h \in Hours |-> 0], LogsParsedBytes |-> [h \in Hours |-> 0],
   LastIP |-> ""]

\* a statistics update that stores the count instead of adding it
bucketSet(a, h, n) == [a EXCEPT ![h] = n]

\* stats.LogsParsed[now.Hour()]++ (server_statistics.go:37)
bucketAdd(a, h, n) == [a EXCEPT ![h] = @ + n]

\* logServer.GatherStatistics (server_statistics.go:16-41), run as a task
GatherStatistics(p) ==
  /\ p \in pendingStats
  /\ smu = "free"
  /\ LET old == IF p.key \in DOMAIN stats THEN stats[p.key]
                                           ELSE newStatistic(p.service, p.instance)
         new == [Service |-> old.Service, Instance |-> old.Instance,
                 LogsParsed |-> bucketAdd(old.LogsParsed, hour, 1),
                 LogsParsedBytes |-> [old.LogsParsedBytes EXCEPT ![hour] = @ + p.bytes],
                 LastIP |-> p.ip]
     IN stats' = (p.key :> new) @@ stats
  /\ pendingStats' = pendingStats \ {p}
  /\ UNCHANGED <<tokens, tokenFile, smu, rpcPc, rpcReq, rpcResp, rpcCount,
                 tokSnap, fileSnap, lastOps, srvPc, statsFile, adminPc, hour,
                 calls, srvNew, loggerVars, adminLog>>

\* the parts of the string s between the occurrences of sep (strings.Split)
RECURSIVE Split(_, _)
Split(s, sep) ==
  IF \A k \in DOMAIN s : s[k] # sep THEN <<s>>
  ELSE LET i == CHOOSE k \in DOMAIN s : s[k] = sep /\ \A j \in 1..(k - 1) : s[j] # sep
       IN <<SubSeq(s, 1, i - 1)>> \o Split(SubSeq(s, i + 1, Len(s)), sep)

\* writeTokenToFile (logserver_tokens.go:69-88): the line key<TAB>token is
\* appended to the token file, a sequence of lines
writeTokenToFile(key, token) == Append(tokenFile, key \o <<"\t">> \o token)

\* AddToken (logserver_tokens.go:14-42)
AddToken(service, instance) ==
  /\ Len(lastOps) < MaxTokenOps
  /\ smu = "free"
  /\ LET key == getCleanKey(service, instance) IN
     IF key \in DOMAIN tokens
       THEN /\ lastOps' = Append(lastOps, [op |-> "AddToken", key |-> key,
                                           present |-> TRUE, result |-> "exists",
                                           token |-> tokens[key]])
            /\ UNCHANGED <<tokens, tokenFile, tokSnap, fileSnap>>
       ELSE \E token \in TokenValues :
              /\ tokenFile' = writeTokenToFile(key, token)
              /\ tokens' = (key :> token) @@ tokens
              /\ tokSnap' = tokens
              /\ fileSnap' = tokenFile
              /\ lastOps' = Append(lastOps, [op |-> "AddToken", key |-> key,
                                             present |-> FALSE, result |-> "ok",
                                             token |-> token])
  /\ UNCHANGED <<stats, smu, pendingStats, rpcPc, rpcReq, rpcResp, rpcCount,
                 srvPc, statsFile, adminPc, hour, calls, srvNew, loggerVars>>

\* l.Lock() on a sync.Mutex in state m: it is taken when free, and waits
\* otherwise, whoever holds it
CanLock(m) == m = "free"

\* the body of removeTokenFromFile after its Lock (logserver_tokens.go:96-130):
\* the file is opened with O_RDONLY|O_WRONLY, which is write-only, so that the
\* scanner reads no line and the empty string is written: the file is as before
removeTokenFromFile(key) == tokenFile

\* RemoveToken (logserver_tokens.go:45-66).  It holds the mutex from line 46
\* on when it calls removeTokenFromFile, whose first statement (line 93) locks
\* the same mutex.
RemoveToken(service, instance) ==
  /\ Len(lastOps) < MaxTokenOps
  /\ smu = "free"
  /\ LET key == getCleanKey(service, instance)
         held == "RemoveToken"
     IN IF key \notin DOMAIN tokens
          THEN /\ lastOps' = Append(lastOps, [op |-> "RemoveToken", key |-> key,
                                              present |-> FALSE, result |-> "no such service/instance",
                                              token |-> <<>>])
               /\ UNCHANGED <<tokens, tokenFile, smu>>
          ELSE IF CanLock(held)
            THEN /\ tokenFile' = removeTokenFromFile(key)
                 /\ tokens' = [k \in DOMAIN tokens \ {key} |-> tokens[k]]
                 /\ lastOps' = Append(lastOps, [op |-> "RemoveToken", key |-> key,
                                                present |-> TRUE, result |-> "ok",
                                                token |-> <<>>])
                 /\ UNCHANGED smu
            ELSE /\ smu' = held
                 /\ lastOps' = Append(lastOps, [op |-> "RemoveToken", key |-> key,
                                                present |-> TRUE, result |-> "blocked",
                                                token |-> tokens[key]])
                 /\ UNCHANGED <<tokens, tokenFile>>
  /\ UNCHANGED <<stats, pendingStats, rpcPc, rpcReq, rpcResp, rpcCount,
                 tokSnap, fileSnap, srvPc, statsFile, adminPc, hour, calls,
                 srvNew, loggerVars>>

(***************************************************************************)
(* Specification of the log server.                                        *)
(***************************************************************************)
\* the state after server.New (utils.go:404-496) with an empty token file and
\* an inner Logger that writes to stdout; the steps of the Logger's writer
\* task are those of SpecLogger and are not repeated here
InitServer ==
  /\ config = [Out |-> OUT_STDOUT, Rotation |-> ROT_NONE, JSON |-> FALSE]
  /\ NewLogger
  /\ tokens = <<>>
  /\ tokenFile = <<>>
  /\ stats = <<>>
  /\ smu = "free"
  /\ pendingStats = {}
  /\ rpcPc = "idle"
  /\ rpcReq = <<>>
  /\ rpcResp = <<>>
  /\ rpcCount = 0
  /\ tokSnap = <<>>
  /\ fileSnap = <<>>
  /\ lastOps = <<>>
  /\ srvPc = "running"
  /\ statsFile = <<>>
  /\ adminPc = AdminIdle
  /\ hour = 0
  /\ calls = <<>>
  /\ srvNew = serverStarted
  /\ adminLog = <<>>

RpcStep == (\E req \in Requests : Receive(req)) \/ intercept \/ RemoteLog

StatsStep == \E p \in pendingStats : GatherStatistics(p)

TokenStep ==
  /\ \E service \in AdminServices, instance \in Instances :
       AddToken(service, instance) \/ RemoveToken(service, instance)
  /\ UNCHANGED adminLog

NextServer ==
  \/ rotateFile \/ write
  \/ SendStep
  \/ RpcStep
  \/ StatsStep
  \/ TokenStep

SpecServer == InitServer /\ [][NextServer]_vars

(***************************************************************************)
(* Stop and restart of the log server.                                     *)
(***************************************************************************)
\* loadTokensFromDisk (logserver_tokens.go:135-166): every line of the token
\* file is split at the tabs and its first part at the slashes; a line that
\* does not give two parts, or whose key does not give two parts, is skipped,
\* and a later line for a key replaces an earlier one
RECURSIVE loadTokensFromDisk(_, _)
loadTokensFromDisk(file, m) ==
  IF file = <<>> THEN m
  ELSE LET parts == Split(Head(file), "\t") IN
       IF Len(parts) # 2 \/ Len(Split(parts[1], "/")) # 2
         THEN loadTokensFromDisk(Tail(file), m)
         ELSE loadTokensFromDisk(Tail(file), (parts[1] :> parts[2]) @@ m)

\* logServer.Quit (utils.go:607-619) followed by the return of StartServer
\* (cmd/journald/server.go:92-106): the support tasks, the RPC server and the
\* listeners are stopped and the process ends.  Neither the statistics nor the
\* inner Logger are touched; the variables keep the values the memory of the
\* process had, and the tasks that had not run yet never run.
logServerQuit ==
  /\ srvPc = "running"
  /\ srvPc' = "stopped"
  /\ pendingStats' = {}
  /\ rpcPc' = "idle"
  /\ adminPc' = AdminIdle
  /\ UNCHANGED <<tokens, tokenFile, stats, smu, rpcReq, rpcResp, rpcCount,
                 tokSnap, fileSnap, lastOps, statsFile, hour, calls, srvNew,
                 loggerVars, adminLog>>

\* json.Marshal of the statistics map (server_statistics.go:155): a JSON
\* object with one member for each key, whose arrays are JSON arrays, indexed
\* from the first element on
jsonMarshal(m) ==
  {[name |-> k,
    value |-> [Service |-> m[k].Service, Instance |-> m[k].Instance,
               LogsParsed |-> [i \in 1..NumHours |-> m[k].LogsParsed[i - 1]],
               LogsParsedBytes |-> [i \in 1..NumHours |-> m[k].LogsParsedBytes[i - 1]],
               LastIP |-> m[k].LastIP]] : k \in DOMAIN m}

\* json.Unmarshal of a JSON object into the map m (server_statistics.go:187):
\* the members of the object replace or extend the entries of m
jsonUnmarshal(doc, m) ==
  LET names == {d.name : d \in doc}
      member(k) == CHOOSE d \in doc : d.name = k
  IN [k \in names \cup DOMAIN m |->
        IF k \in names
          THEN [Service |-> member(k).value.Service,
                Instance |-> member(k).value.Instance,
                LogsParsed |-> [h \in Hours |-> member(k).value.LogsParsed[h + 1]],
                LogsParsedBytes |-> [h \in Hours |-> member(k).value.LogsParsedBytes[h + 1]],
                LastIP |-> member(k).value.LastIP]
          ELSE m[k]]

\* dumpStatsToFile (server_statistics.go:145-166), called by
\* periodicallyDumpStats every period (132-142) and by nothing else: the file
\* is replaced by the marshalled map.  The file is a sequence of documents,
\* empty for a file of length 0.
dumpStatsToFile ==
  /\ srvPc = "running"
  /\ smu = "free"
  /\ statsFile' = <<jsonMarshal(stats)>>
  /\ UNCHANGED <<tokens, tokenFile, stats, smu, pendingStats, rpcPc, rpcReq,
                 rpcResp, rpcCount, tokSnap, fileSnap, lastOps, srvPc,
                 adminPc, hour, calls, srvNew, loggerVars, adminLog>>

\* loadStatisticsFromDisk (server_statistics.go:169-193): nothing is loaded
\* from a file of length 0
loadStatisticsFromDisk(file, m) ==
  IF Len(file) = 0 THEN m ELSE jsonUnmarshal(file[1], m)

\* server.New in a new process (utils.go:404-496): the maps are made empty,
\* loaded from the token file (448) and the statistics file (453), and a new
\* inner Logger is created (489: journal.New, whose rotateFile and write steps
\* follow); the files, the output and the counters of the model are those of
\* before
logServerNew ==
  /\ srvPc = "stopped"
  /\ srvPc' = "running"
  /\ tokens' = loadTokensFromDisk(tokenFile, <<>>)
  /\ stats' = loadStatisticsFromDisk(statsFile, <<>>)
  /\ smu' = "free"
  /\ active' = TRUE
  /\ wg' = 0
  /\ ledger' = <<>>
  /\ senders' = {}
  /\ mu' = "free"
  /\ stdoutSet' = FALSE
  /\ newPc' = "rotateFile"
  /\ wrPc' = "off"
  /\ wrEntry' = 0
  /\ UNCHANGED <<tokenFile, pendingStats, rpcPc, rpcReq, rpcResp, rpcCount, tokSnap,
                 fileSnap, lastOps, statsFile, adminPc, hour, calls, srvNew, adminLog>>
  /\ UNCHANGED <<config, logfile, logfileOpen, remoteWriters, cancelled, today, clock, rotWakeAt, disk,
                 stdoutLines, handed, readySignals, rotPc, rotPrev, rotNext,
                 rotCurrent, rotIsNew, rotTransit, openFailures, quitPc, callPc,
                 callEntry, callTransit, nextId, entries, accepted, lateCalls,
                 failures, selfCalls, remoteErrors, doneCount,
                 codeMaps, loggers, lastCall, content>>

\* an hour of the clock passes
HourPasses ==
  /\ hour < MaxHour
  /\ hour' = (hour + 1) % NumHours
  /\ UNCHANGED <<tokens, tokenFile, stats, smu, pendingStats, rpcPc, rpcReq,
                 rpcResp, rpcCount, tokSnap, fileSnap, lastOps, srvPc,
                 statsFile, adminPc, calls, srvNew, loggerVars, adminLog>>

\* service names of the admin calls of SpecRestart; AddToken takes any string
RestartServices == {<<"s">>, <<"s", "/", "x">>}

RestartTokenStep ==
  /\ srvPc = "running"
  /\ \E service \in RestartServices, instance \in Instances :
       AddToken(service, instance) \/ RemoveToken(service, instance)
  /\ UNCHANGED adminLog

\* the log server and its token file over stops and restarts
NextRestart ==
  \/ RestartTokenStep
  \/ logServerQuit
  \/ logServerNew

SpecRestart == InitServer /\ [][NextRestart]_vars

\* the state after server.New (utils.go:404-496) with the token file tf and
\* the statistics file sf
InitLoaded(tf, sf) ==
  /\ config = [Out |-> OUT_STDOUT, Rotation |-> ROT_NONE, JSON |-> FALSE]
  /\ NewLogger
  /\ tokenFile = tf
  /\ tokens = loadTokensFromDisk(tokenFile, <<>>)
  /\ statsFile = sf
  /\ stats = loadStatisticsFromDisk(statsFile, <<>>)
  /\ smu = "free"
  /\ pendingStats = {}
  /\ rpcPc = "idle"
  /\ rpcReq = <<>>
  /\ rpcResp = <<>>
  /\ rpcCount = 0
  /\ tokSnap = <<>>
  /\ fileSnap = <<>>
  /\ lastOps = <<>>
  /\ srvPc = "running"
  /\ adminPc = AdminIdle
  /\ hour = 0
  /\ calls = <<>>
  /\ srvNew = serverStarted
  /\ adminLog = <<>>

\* the token file that holds the tokens of the services s and t, instance i
TwoTokens ==
  <<getCleanKey(<<"s">>, <<"i">>) \o <<"\t">> \o <<"t1">>,
    getCleanKey(<<"t">>, <<"i">>) \o <<"\t">> \o <<"t1">>>>

\* the state after server.New with that token file and no statistics file
InitStats == InitLoaded(TwoTokens, <<>>)

\* the steps of the inner Logger of a running server
InnerLoggerStep == srvPc = "running" /\ (rotateFile \/ write \/ SendStep)

\* the RPCs and the statistics tasks of a running server
ServedStep == srvPc = "running" /\ (RpcStep \/ StatsStep)

\* the log server and its statistics over the hours, stops and restarts
NextStats ==
  \/ InnerLoggerStep
  \/ ServedStep
  \/ dumpStatsToFile
  \/ HourPasses
  \/ logServerQuit
  \/ logServerNew

SpecStats == InitStats /\ [][NextStats]_vars

\* the running log server and its statistics over the hours
NextHours ==
  \/ InnerLoggerStep
  \/ ServedStep
  \/ HourPasses

SpecHours == InitStats /\ [][NextHours]_vars

\* the writer task of the inner Logger of a running server
InnerWriterStep == srvPc = "running" /\ WriterStep

\* the log server with the writer of its inner Logger, up to its shutdown
NextShutdown ==
  \/ InnerLoggerStep
  \/ InnerWriterStep
  \/ ServedStep
  \/ logServerQuit

SpecShutdown == InitStats /\ [][NextShutdown]_vars

(***************************************************************************)
(* The destinations of the inner Logger, through the log server.           *)
(***************************************************************************)
\* logServer.AddDestination, ListDestinations and RemoveDestination
\* (utils.go:578-599), first statement: l.Lock() on the server mutex.
\* CmdRemoteAdd (manager.go:449-460) does the same with m.logserver.Lock().
destinationServerLock(op, name) ==
  /\ newPc = "returned"
  /\ adminPc = AdminIdle
  /\ smu = "free"
  /\ smu' = "admin"
  /\ adminPc' = [at |-> "server", op |-> op, name |-> name]
  /\ UNCHANGED <<tokens, tokenFile, stats, pendingStats, rpcPc, rpcReq,
                 rpcResp, rpcCount, tokSnap, fileSnap, lastOps, srvPc,
                 statsFile, hour, calls, srvNew, loggerVars, adminLog>>

\* the call of the inner Logger's method with the server mutex held (utils.go
\* 582, 590, 598), whose first statement is l.mu.Lock() (journal.go:170, 184,
\* 198)
destinationLoggerLock ==
  /\ adminPc.at = "server"
  /\ mu = "free"
  /\ mu' = "admin"
  /\ adminPc' = [adminPc EXCEPT !.at = "logger"]
  /\ UNCHANGED <<tokens, tokenFile, stats, smu, pendingStats, rpcPc, rpcReq, rpcResp,
                 rpcCount, tokSnap, fileSnap, lastOps, srvPc, statsFile, hour, calls, srvNew,
                 adminLog>>
  /\ UNCHANGED <<config, active, wg, ledger, logfile, logfileOpen, stdoutSet,
                 remoteWriters, cancelled, today, clock, rotWakeAt, disk, stdoutLines, handed, newPc,
                 readySignals, rotPc, rotPrev, rotNext, rotCurrent, rotIsNew,
                 rotTransit, openFailures, wrPc, wrEntry, quitPc, callPc, callEntry,
                 callTransit, senders, nextId, entries, accepted, lateCalls,
                 failures, selfCalls, remoteErrors, doneCount,
                 codeMaps, loggers, lastCall, content>>

\* the body of the Logger's method (journal.go:173-179, 187-193, 201-220) and
\* the two deferred Unlocks
destinationReturn ==
  /\ adminPc.at = "logger"
  /\ remoteWriters' =
       IF adminPc.op = "add" THEN remoteWriters \cup {adminPc.name}
       ELSE IF adminPc.op = "remove" THEN remoteWriters \ {adminPc.name}
       ELSE remoteWriters
  /\ mu' = "free"
  /\ smu' = "free"
  /\ adminPc' = AdminIdle
  /\ UNCHANGED <<tokens, tokenFile, stats, pendingStats, rpcPc, rpcReq, rpcResp,
                 rpcCount, tokSnap, fileSnap, lastOps, srvPc, statsFile, hour, calls, srvNew,
                 adminLog>>
  /\ UNCHANGED <<config, active, wg, ledger, logfile, logfileOpen, stdoutSet,
                 cancelled, today, clock, rotWakeAt, disk, stdoutLines, handed, newPc,
                 readySignals, rotPc, rotPrev, rotNext, rotCurrent, rotIsNew,
                 rotTransit, openFailures, wrPc, wrEntry, quitPc, callPc, callEntry,
                 callTransit, senders, nextId, entries, accepted, lateCalls,
                 failures, selfCalls, remoteErrors, doneCount,
                 codeMaps, loggers, lastCall, content>>

\* the admin commands remote.add, remote.remove and remote.list
DestinationAdminStep ==
  \/ \E op \in {"add", "remove", "list"} : destinationServerLock(op, "r1")
  \/ destinationLoggerLock
  \/ destinationReturn

\* the running log server with its admin commands on the destinations
NextAdmin ==
  \/ InnerLoggerStep
  \/ ServedStep
  \/ DestinationAdminStep

SpecAdmin == InitStats /\ [][NextAdmin]_vars
(***************************************************************************)
(* The calls of the Logger's API with their arguments and results.         *)
(***************************************************************************)
\* the entry that pushToLedger builds (part_001:266-302): the thirteen columns;
\* the dates, the file and the line are the same for every entry of the model,
\* and service and instance are those of the configuration of journald
\* (cmd/journald/server.go:69-70), the empty string
newEntry(caller, code, fmsg) ==
  LET r == getMsgCode(code) IN
  [col \in COL_DATE_YYMMDD..COL_LINE |->
     IF col = COL_SERVICE \/ col = COL_INSTANCE THEN <<>>
     ELSE IF col = COL_CALLER THEN <<caller>>
     ELSE IF col = COL_MSG_TYPE_SHORT THEN (IF r.Error THEN <<"ERR">> ELSE <<"MSG">>)
     ELSE IF col = COL_MSG_TYPE_INT THEN <<ToString(code)>>
     ELSE IF col = COL_MSG_TYPE_STR THEN <<r.Type>>
     ELSE IF col = COL_MSG THEN fmsg
     ELSE IF col = COL_FILE THEN <<"file.go">>
     ELSE IF col = COL_LINE THEN <<"1">>
     ELSE <<"date">>]

\* pushToLedger (part_001:249-317) as one step of the caller; its interleaving
\* with Quit is that of pushToLedgerRead and pushToLedgerAdd
pushToLedger(call, caller, code, fmsg) ==
  /\ newPc = "returned"
  /\ nextId <= MaxEntries
  /\ entries' = Append(entries, caller)
  /\ content' = Append(content, newEntry(caller, code, fmsg))
  /\ nextId' = nextId + 1
  /\ lateCalls' = IF quitPc = "returned" THEN lateCalls \cup {nextId} ELSE lateCalls
  /\ IF readActive
       THEN /\ wg' = wg + 1
            /\ accepted' = accepted \cup {nextId}
            /\ spawnSend({nextId})
       ELSE UNCHANGED <<wg, accepted, senders, ledger>>
  /\ lastCall' = [api |-> call.api, code |-> call.code, arg |-> call.arg,
                  name |-> getMsgCode(code).Type, active |-> readActive,
                  err |-> errorIf(getMsgCode(code).Error, fmsg),
                  entry |-> nextId,
                  submitted |-> IF readActive THEN {nextId} ELSE {}, logger |-> 1]
  /\ UNCHANGED <<config, active, mu, logfile, logfileOpen, stdoutSet,
                 remoteWriters, cancelled, today, clock, rotWakeAt, disk,
                 stdoutLines, handed, newPc, readySignals, rotPc, rotPrev,
                 rotNext, rotCurrent, rotIsNew, rotTransit, openFailures,
                 wrPc, wrEntry, quitPc, callPc, callEntry, callTransit,
                 failures, selfCalls, remoteErrors, doneCount, codeMaps,
                 loggers, serverVars, adminLog>>

\* the call of the API that is under way: the method, the code and the message
\* or the fields it was given
Call(api, code, arg) == [api |-> api, code |-> code, arg |-> arg]

\* logger.Log (journal.go:114-116)
Log(caller, code, msg) == pushToLedger(Call("Log", code, msg), caller, code, msg)

\* the closure of logger.NewCaller (journal.go:129-135)
NewCaller(caller, code, msg) ==
  pushToLedger(Call("NewCaller", code, msg), caller, code, msg)

\* what json.Marshal answers when it cannot encode the fields
MarshalError == <<"LogFields: could not marshal log entry to JSON">>

\* logger.LogFields (journal.go:119-126); fields.ok tells whether json.Marshal
\* can encode the fields, and fields.json is then the encoding
LogFields(caller, code, fields) ==
  IF ~fields.ok
    THEN pushToLedger(Call("LogFields", code, fields), "system", 1, MarshalError)
    ELSE pushToLedger(Call("LogFields", code, fields), caller, code, fields.json)

\* the closure of logger.NewCallerWithFields (journal.go:138-144)
NewCallerWithFields(caller, code, fields) ==
  IF ~fields.ok
    THEN pushToLedger(Call("NewCallerWithFields", code, fields), "system", 1,
                      MarshalError)
    ELSE pushToLedger(Call("NewCallerWithFields", code, fields), caller, code,
                      fields.json)

\* the map m after `m[code] = lCode` for every supplied code that passes the
\* test of journal.go:107
assignCodes(m, supplied) ==
  [c \in DOMAIN m \cup {k \in DOMAIN supplied : customisable(k)} |->
     IF c \in DOMAIN supplied /\ customisable(c) THEN supplied[c] ELSE m[c]]

\* logger.UseCustomCodes (journal.go:105-111) of the n-th Logger: the
\* assignments l.codes[code] = lCode change the map that l.codes refers to
UseCustomCodesOf(n, supplied) ==
  /\ newPc = "returned"
  /\ codeMaps' = [codeMaps EXCEPT ![loggers[n].codes] = assignCodes(@, supplied)]
  /\ lastCall' = [NoCall EXCEPT !.api = "UseCustomCodes", !.arg = supplied,
                               !.logger = n]
  /\ UNCHANGED <<config, active, wg, ledger, mu, logfile, logfileOpen,
                 stdoutSet, remoteWriters, cancelled, today, clock,
                 rotWakeAt, disk, stdoutLines, handed, newPc, readySignals,
                 rotPc, rotPrev, rotNext, rotCurrent, rotIsNew, rotTransit,
                 openFailures, wrPc, wrEntry, quitPc, callPc, callEntry,
                 callTransit, senders, nextId, entries, accepted, lateCalls,
                 failures, selfCalls, remoteErrors, doneCount, loggers,
                 content, serverVars, adminLog>>

\* logger.UseCustomCodes of the first Logger
UseCustomCodes(supplied) == UseCustomCodesOf(1, supplied)

\* codes of the default table, codes that are not in it, codes at and beyond
\* the ends of the range of the custom codes
SampleCodes == {-1, 0, 1, 2, 5, 200, 998, 999, 1000}

\* maps of custom codes
SampleCustomCodes ==
  { <<>>,
    (2 :> Code(FALSE, "Custom2")) @@ (998 :> Code(TRUE, "Custom998")),
    (-1 :> Code(FALSE, "Below")) @@ (0 :> Code(TRUE, "Zero")) @@ (1 :> Code(FALSE, "One"))
      @@ (5 :> Code(FALSE, "Custom5")) @@ (999 :> Code(FALSE, "Last"))
      @@ (1000 :> Code(FALSE, "Above")) }

\* the fields of a LogFields call: two that json.Marshal encodes, and one that
\* it does not (a channel or a function among the values)
SampleFields ==
  {[ok |-> TRUE, json |-> <<"{}">>], [ok |-> FALSE, json |-> <<>>]}

CodesStep == \E supplied \in SampleCustomCodes : UseCustomCodes(supplied)

LogStep ==
  /\ Len(content) < MaxCalls
  /\ \E code \in SampleCodes :
       \/ Log("c1", code, <<"m">>)
       \/ NewCaller("c1", code, <<"m">>)
       \/ \E fields \in SampleFields :
            LogFields("c1", code, fields) \/ NewCallerWithFields("c1", code, fields)

\* a Logger on stdout with its API and Quit; the steps of the send tasks and
\* of the writer are those of SpecLogger and are not repeated here
InitCodes ==
  /\ config = [Out |-> OUT_STDOUT, Rotation |-> ROT_NONE, JSON |-> FALSE]
  /\ NewLogger
  /\ NoServer

NextCodes ==
  \/ rotateFile \/ write
  \/ CodesStep
  \/ LogStep
  \/ QuitStep

SpecCodes == InitCodes /\ [][NextCodes]_vars
(***************************************************************************)
(* Raw entries and the text of the lines (journal.go:148-166,              *)
(* log_entry.go, part_001:337-349).                                        *)
(***************************************************************************)
\* the value of a column of an entry: a Go map gives "" for an absent key
valueOf(entry, col) == IF col \in DOMAIN entry THEN entry[col] ELSE <<>>

\* logEntry.toStr (log_entry.go:28-34): every column of cols followed by a tab
RECURSIVE toStr(_, _)
toStr(entry, cols) ==
  IF cols = <<>> THEN <<>>
  ELSE valueOf(entry, Head(cols)) \o <<"\t">> \o toStr(entry, Tail(cols))

\* colname (part_001:430-463)
colname(col) ==
  IF col \in {COL_DATE_YYMMDD, COL_DATE_YYMMDD_HHMMSS, COL_DATE_YYMMDD_HHMMSS_NANO,
              COL_TIMESTAMP} THEN "Date"
  ELSE IF col = COL_SERVICE THEN "Service"
  ELSE IF col = COL_INSTANCE THEN "Instance"
  ELSE IF col = COL_CALLER THEN "Caller"
  ELSE IF col = COL_MSG_TYPE_SHORT THEN "Type"
  ELSE IF col = COL_MSG_TYPE_INT THEN "Type_INT"
  ELSE IF col = COL_MSG_TYPE_STR THEN "Type_STR"
  ELSE IF col = COL_MSG THEN "Message"
  ELSE IF col = COL_FILE THEN "File"
  ELSE IF col = COL_LINE THEN "Line"
  ELSE "Unknown"

\* the characters of correctionPattern (log_entry.go:10); the strings of the
\* model have no backspace and no vertical tab
ControlChars == {"\t", "\n", "\r", "\f"}

\* a JSON string as json.Marshal writes it: a control character becomes its
\* escape sequence, a backslash followed by a letter
jsonString(v) ==
  [i \in DOMAIN v |->
     IF v[i] = "\t" THEN "\\t" ELSE IF v[i] = "\n" THEN "\\n"
     ELSE IF v[i] = "\r" THEN "\\r" ELSE IF v[i] = "\f" THEN "\\u000c" ELSE v[i]]

\* logEntry.toJSON (log_entry.go:37-48): the object with a member for the name
\* of each column of cols; of the columns of one name the last one stays
toJSON(entry, cols) ==
  {[name |-> colname(cols[i]), value |-> jsonString(valueOf(entry, cols[i]))] :
     i \in {j \in DOMAIN cols : \A k \in DOMAIN cols : k > j => colname(cols[k]) # colname(cols[j])}}

\* the text of the line of entry id on stdout and in a file that is not JSON
\* (part_001:339, 347), and in a JSON file (part_001:345), without the line
\* break that ends it; config.Columns is defaultCols (journal.go:41-42).
\* logEntry.correct (log_entry.go:16-25) is called by nothing.
lineText(id) == toStr(content[id], defaultCols)
lineJSON(id) == toJSON(content[id], defaultCols)

\* logger.RawEntry (journal.go:148-166) as one step of the caller
RawEntry(entry) ==
  /\ newPc = "returned"
  /\ nextId <= MaxEntries
  /\ LET missing == {i \in DOMAIN defaultCols : defaultCols[i] \notin DOMAIN entry}
         first == CHOOSE i \in missing : \A j \in missing : i <= j
         call == [NoCall EXCEPT !.api = "RawEntry", !.arg = entry, !.active = readActive]
     IN IF missing # {}
          THEN /\ lastCall' = [call EXCEPT !.err =
                                 [nil |-> FALSE,
                                  msg |-> <<"RawEntry: missing column",
                                            ToString(defaultCols[first])>>]]
               /\ UNCHANGED <<entries, content, nextId, lateCalls, wg, accepted,
                              senders, ledger>>
          ELSE /\ lastCall' = [call EXCEPT !.entry = nextId,
                                           !.submitted = IF readActive THEN {nextId}
                                                                       ELSE {}]
               /\ entries' = Append(entries, "remote")
               /\ content' = Append(content, entry)
               /\ nextId' = nextId + 1
               /\ lateCalls' = IF quitPc = "returned" THEN lateCalls \cup {nextId}
                                                      ELSE lateCalls
               /\ IF readActive
                    THEN /\ wg' = wg + 1
                         /\ accepted' = accepted \cup {nextId}
                         /\ spawnSend({nextId})
                    ELSE UNCHANGED <<wg, accepted, senders, ledger>>
  /\ UNCHANGED <<config, active, mu, logfile, logfileOpen, stdoutSet,
                 remoteWriters, cancelled, today, clock, rotWakeAt, disk,
                 stdoutLines, handed, newPc, readySignals, rotPc, rotPrev,
                 rotNext, rotCurrent, rotIsNew, rotTransit, openFailures,
                 wrPc, wrEntry, quitPc, callPc, callEntry, callTransit,
                 failures, selfCalls, remoteErrors, doneCount, codeMaps,
                 loggers, serverVars, adminLog>>

\* an entry with all thirteen columns, whose message is msg
fullEntry(msg) ==
  [col \in COL_DATE_YYMMDD..COL_LINE |-> IF col = COL_MSG THEN msg ELSE <<"v">>]

\* the entry without the column col
without(entry, col) == [c \in DOMAIN entry \ {col} |-> entry[c]]

\* messages: plain, with a tab and a line break inside, empty
SampleMessages == {<<"m">>, <<"a", "\t", "b", "\n", "c">>, <<>>}

\* raw entries: complete ones, and entries that lack one column
SampleRawEntries ==
  {fullEntry(m) : m \in SampleMessages}
    \cup {without(fullEntry(<<"m">>), col) : col \in {COL_TIMESTAMP, COL_CALLER, COL_MSG}}

RawEntryStep == \E entry \in SampleRawEntries : RawEntry(entry)

LogMessageStep == \E msg \in SampleMessages : Log("c1", 0, msg)

\* a Logger on stdout, and one on stdout and a JSON file
InitEntries ==
  /\ config \in {[Out |-> OUT_STDOUT, Rotation |-> ROT_NONE, JSON |-> FALSE],
                 [Out |-> OUT_FILE_AND_STDOUT, Rotation |-> ROT_NONE, JSON |-> TRUE]}
  /\ NewLogger
  /\ NoServer

\* the Logger with the raw entries and messages of its callers, its writer
\* and Quit
NextEntries ==
  \/ StartupStep
  \/ RotationStep
  \/ RawEntryStep
  \/ LogMessageStep
  \/ SendStep
  \/ WriterStep
  \/ QuitStep

SpecEntries == InitEntries /\ [][NextEntries]_vars
(***************************************************************************)
(* Several Loggers in one process and their code tables.                   *)
(***************************************************************************)
\* journal.New called once more in the process (journal.go:62-71): the field
\* codes of the new Logger gets the value of the package variable
\* defaultCodes, the reference to the one map; of the further Loggers the
\* model keeps this field only
NewLoggerStep ==
  /\ Len(loggers) < MaxLoggers
  /\ loggers' = Append(loggers, [codes |-> defaultCodesRef])
  /\ lastCall' = [NoCall EXCEPT !.api = "New", !.logger = Len(loggers) + 1]
  /\ UNCHANGED <<config, active, wg, ledger, mu, logfile, logfileOpen,
                 stdoutSet, remoteWriters, cancelled, today, clock,
                 rotWakeAt, disk, stdoutLines, handed, newPc, readySignals,
                 rotPc, rotPrev, rotNext, rotCurrent, rotIsNew, rotTransit,
                 openFailures, wrPc, wrEntry, quitPc, callPc, callEntry,
                 callTransit, senders, nextId, entries, accepted, lateCalls,
                 failures, selfCalls, remoteErrors, doneCount, codeMaps,
                 content, serverVars, adminLog>>

\* UseCustomCodes of any Logger of the process
CustomCodesStep ==
  \E n \in 1..Len(loggers), supplied \in SampleCustomCodes :
    UseCustomCodesOf(n, supplied)

\* the Loggers of a process with their code tables; the first Logger logs
NextTables ==
  \/ rotateFile \/ write
  \/ NewLoggerStep
  \/ CustomCodesStep
  \/ LogStep

SpecTables == InitCodes /\ [][NextTables]_vars

(***************************************************************************)
(* New with the validation of its configuration (journal.go:31-80).        *)
(***************************************************************************)
\* folders: one in which a file can be made, and one in which none can
Folders == {"writable", "readonly"}

\* a canWrite that takes every folder for a writable one
canWriteAlways(folder) == TRUE

\* canWrite (part_001:380-392): ioutil.TempFile in the folder succeeds
canWrite(folder) == folder = "writable"

\* the first test of New that fails (journal.go:34-55), or none
validate(cfg) ==
  IF cfg.Rotation < ROT_NONE \/ cfg.Rotation > ROT_ANNUALLY
    THEN <<"New: invalid roll option", ToString(cfg.Rotation)>>
  ELSE IF cfg.Out < OUT_FILE \/ cfg.Out > OUT_FILE_AND_STDOUT
    THEN <<"New: invalid output option", ToString(cfg.Out)>>
  ELSE IF \E i \in 1..Len(cfg.Columns) :
            cfg.Columns[i] < COL_DATE_YYMMDD \/ cfg.Columns[i] > COL_LINE
    THEN LET bad == {i \in 1..Len(cfg.Columns) :
                       cfg.Columns[i] < COL_DATE_YYMMDD \/ cfg.Columns[i] > COL_LINE}
             first == CHOOSE i \in bad : \A j \in bad : i <= j
         IN <<"New: invalid column", ToString(cfg.Columns[first])>>
  ELSE IF (cfg.Out = OUT_FILE \/ cfg.Out = OUT_FILE_AND_STDOUT) /\ ~canWrite(cfg.Folder)
    THEN <<"New: cannot write to", cfg.Folder>>
  ELSE <<>>

\* New down to the call of Log.rotateFile (journal.go:31-74): a configuration
\* that fails a test gives (nil, error) and nothing else happens; otherwise
\* the empty list of columns is replaced by defaultCols in the configuration
\* of the caller and the Logger is built
New ==
  /\ newPc = "New"
  /\ LET failure == validate(config) IN
     IF failure # <<>>
       THEN /\ newPc' = "failed"
            /\ lastCall' = [NoCall EXCEPT !.api = "New", !.active = FALSE,
                                          !.err = [nil |-> FALSE, msg |-> failure]]
            /\ UNCHANGED <<config, active>>
       ELSE /\ config' = [config EXCEPT !.Columns = IF Len(@) = 0 THEN defaultCols ELSE @]
            /\ active' = TRUE
            /\ newPc' = "rotateFile"
            /\ lastCall' = [NoCall EXCEPT !.api = "New"]
  /\ UNCHANGED <<wg, ledger, mu, logfile, logfileOpen, stdoutSet,
                 remoteWriters, cancelled, today, clock, rotWakeAt, disk,
                 stdoutLines, handed, readySignals, rotPc, rotPrev, rotNext,
                 rotCurrent, rotIsNew, rotTransit, openFailures, wrPc,
                 wrEntry, quitPc, callPc, callEntry, callTransit, senders,
                 nextId, entries, accepted, lateCalls, failures, selfCalls,
                 remoteErrors, doneCount, codeMaps, loggers, content,
                 serverVars, adminLog>>

\* configurations with constants and columns at both ends of their ranges and
\* beyond them
NewConfigs ==
  [Out : {OUT_FILE - 1, OUT_FILE, OUT_STDOUT, OUT_FILE_AND_STDOUT, OUT_FILE_AND_STDOUT + 1},
   Rotation : {ROT_NONE - 1, ROT_NONE, ROT_DAILY, ROT_ANNUALLY, ROT_ANNUALLY + 1},
   JSON : {FALSE},
   Columns : {<<>>, <<COL_DATE_YYMMDD, COL_LINE>>, <<COL_DATE_YYMMDD - 1>>,
              <<COL_MSG, COL_LINE + 1>>},
   Folder : Folders]

\* before New is called: no Logger, and any configuration
InitNew ==
  /\ config \in NewConfigs
  /\ loggerStruct(FALSE, "New")
  /\ NoServer

\* New and the start of the tasks; a caller logs with the Logger it got
NextNew ==
  \/ New
  \/ StartupStep
  \/ rotateOpen \/ rotateSwap
  \/ LogStep

SpecNew == InitNew /\ [][NextNew]_vars

(***************************************************************************)
(* server.New step by step (utils.go:404-496).                             *)
(***************************************************************************)
\* server.New returns the error of the step `step`, leaving the listeners
\* and tasks as they are
serverNewFails(step) == [srvNew EXCEPT !.pc = "failed", !.err = step]

\* unixsrv.New (lines 414-418): the admin socket server is started, or New
\* returns the error
serverNewUnix ==
  /\ srvNew.pc = "unix"
  /\ \E ok \in BOOLEAN :
       srvNew' = IF ok THEN [srvNew EXCEPT !.pc = "tcp", !.unixsrv = TRUE]
                       ELSE serverNewFails("unix")
  /\ UNCHANGED <<tokens, tokenFile, stats, smu, pendingStats, rpcPc, rpcReq,
                 rpcResp, rpcCount, tokSnap, fileSnap, lastOps, srvPc,
                 statsFile, adminPc, hour, calls, loggerVars, adminLog>>

\* net.Listen("tcp", ...) (lines 421-425): the listener is opened, or the
\* admin socket server is stopped and New returns the error
serverNewTCP ==
  /\ srvNew.pc = "tcp"
  /\ \E ok \in BOOLEAN :
       srvNew' = IF ok THEN [srvNew EXCEPT !.pc = "tokens", !.listenTCP = TRUE]
                       ELSE [serverNewFails("tcp") EXCEPT !.unixsrv = FALSE]
  /\ UNCHANGED <<tokens, tokenFile, stats, smu, pendingStats, rpcPc, rpcReq,
                 rpcResp, rpcCount, tokSnap, fileSnap, lastOps, srvPc,
                 statsFile, adminPc, hour, calls, loggerVars, adminLog>>

\* loadTokensFromDisk (lines 448-450; logserver_tokens.go:135-166): the token
\* file is created if need be, opened and read, or New returns the error
serverNewTokens ==
  /\ srvNew.pc = "tokens"
  /\ \E ok \in BOOLEAN :
       IF ok THEN /\ tokens' = loadTokensFromDisk(tokenFile, <<>>)
                  /\ srvNew' = [srvNew EXCEPT !.pc = "stats"]
             ELSE /\ srvNew' = serverNewFails("tokens")
                  /\ UNCHANGED tokens
  /\ UNCHANGED <<tokenFile, stats, smu, pendingStats, rpcPc, rpcReq, rpcResp,
                 rpcCount, tokSnap, fileSnap, lastOps, srvPc, statsFile,
                 adminPc, hour, calls, loggerVars, adminLog>>

\* loadStatisticsFromDisk (lines 453-455) and, when it succeeds, the start
\* of periodicallyDumpStats and of the task that serves the RPCs (458-466)
serverNewStats ==
  /\ srvNew.pc = "stats"
  /\ \E ok \in BOOLEAN :
       IF ok THEN /\ stats' = loadStatisticsFromDisk(statsFile, <<>>)
                  /\ srvNew' = [srvNew EXCEPT !.pc = "logger", !.dumper = TRUE,
                                              !.serving = TRUE]
             ELSE /\ srvNew' = serverNewFails("stats")
                  /\ UNCHANGED stats
  /\ UNCHANGED <<tokens, tokenFile, smu, pendingStats, rpcPc, rpcReq,
                 rpcResp, rpcCount, tokSnap, fileSnap, lastOps, srvPc,
                 statsFile, adminPc, hour, calls, loggerVars, adminLog>>

\* journal.New(config.LoggerConfig) (line 489) and the start of the tasks of
\* the inner Logger
serverNewLogger ==
  /\ srvNew.pc = "logger"
  /\ New \/ StartupStep \/ rotateOpen \/ rotateSwap

\* lines 490-495: New returns the error of journal.New, or the server
serverNewReturn ==
  /\ srvNew.pc = "logger"
  /\ newPc \in {"failed", "returned"}
  /\ srvNew' = IF newPc = "failed" THEN serverNewFails("logger")
                                   ELSE [srvNew EXCEPT !.pc = "returned"]
  /\ UNCHANGED <<tokens, tokenFile, stats, smu, pendingStats, rpcPc, rpcReq,
                 rpcResp, rpcCount, tokSnap, fileSnap, lastOps, srvPc,
                 statsFile, adminPc, hour, calls, loggerVars, adminLog>>

\* the token files server.New can find
TokenFiles == {<<>>, TwoTokens}

\* before server.New is called: any configuration of the inner Logger and
\* each token file
InitBoot ==
  /\ config \in NewConfigs
  /\ loggerStruct(FALSE, "New")
  /\ tokenFile \in TokenFiles
  /\ tokens = <<>>
  /\ stats = <<>>
  /\ smu = "free"
  /\ pendingStats = {}
  /\ rpcPc = "idle"
  /\ rpcReq = <<>>
  /\ rpcResp = <<>>
  /\ rpcCount = 0
  /\ tokSnap = <<>>
  /\ fileSnap = <<>>
  /\ lastOps = <<>>
  /\ srvPc = "stopped"
  /\ statsFile = <<>>
  /\ adminPc = AdminIdle
  /\ hour = 0
  /\ calls = <<>>
  /\ srvNew = serverAt("unix", FALSE, FALSE, FALSE, "")
  /\ adminLog = <<>>

NextBoot ==
  \/ serverNewUnix
  \/ serverNewTCP
  \/ serverNewTokens
  \/ serverNewStats
  \/ serverNewLogger
  \/ serverNewReturn

SpecBoot == InitBoot /\ [][NextBoot]_vars
(***************************************************************************)
(* The calls on the destinations with their results (journal.go:169-221).  *)
(***************************************************************************)
\* a lookup in which no name is ever found
presentNever(name) == FALSE

\* `_, ok := l.remoteWriters[name]` (journal.go:173, 187)
present(name) == name \in remoteWriters

\* logger.AddDestination (journal.go:169-180), the whole call under the mutex
AddDestinationCall(name) ==
  /\ newPc = "returned"
  /\ mu = "free"
  /\ IF present(name)
       THEN /\ lastCall' = [NoCall EXCEPT !.api = "AddDestination", !.arg = <<name>>,
                              !.err = [nil |-> FALSE,
                                       msg |-> <<"AddDestination: destination", name,
                                                 "already present">>]]
            /\ UNCHANGED remoteWriters
       ELSE /\ remoteWriters' = remoteWriters \cup {name}
            /\ lastCall' = [NoCall EXCEPT !.api = "AddDestination", !.arg = <<name>>]
  /\ UNCHANGED <<config, active, wg, ledger, mu, logfile, logfileOpen,
                 stdoutSet, cancelled, today, clock, rotWakeAt, disk,
                 stdoutLines, handed, newPc, readySignals, rotPc, rotPrev,
                 rotNext, rotCurrent, rotIsNew, rotTransit, openFailures,
                 wrPc, wrEntry, quitPc, callPc, callEntry, callTransit,
                 senders, nextId, entries, accepted, lateCalls, failures,
                 selfCalls, remoteErrors, doneCount, codeMaps, loggers,
                 content, serverVars>>

\* logger.RemoveDestination (journal.go:183-194), the whole call under the mutex
RemoveDestinationCall(name) ==
  /\ newPc = "returned"
  /\ mu = "free"
  /\ IF ~present(name)
       THEN /\ lastCall' = [NoCall EXCEPT !.api = "RemoveDestination", !.arg = <<name>>,
                              !.err = [nil |-> FALSE,
                                       msg |-> <<"RemoveDestination: unknown destination",
                                                 name>>]]
            /\ UNCHANGED remoteWriters
       ELSE /\ remoteWriters' = remoteWriters \ {name}
            /\ lastCall' = [NoCall EXCEPT !.api = "RemoveDestination", !.arg = <<name>>]
  /\ UNCHANGED <<config, active, wg, ledger, mu, logfile, logfileOpen,
                 stdoutSet, cancelled, today, clock, rotWakeAt, disk,
                 stdoutLines, handed, newPc, readySignals, rotPc, rotPrev,
                 rotNext, rotCurrent, rotIsNew, rotTransit, openFailures,
                 wrPc, wrEntry, quitPc, callPc, callEntry, callTransit,
                 senders, nextId, entries, accepted, lateCalls, failures,
                 selfCalls, remoteErrors, doneCount, codeMaps, loggers,
                 content, serverVars>>

DestinationCallStep ==
  /\ \E name \in Remotes : AddDestinationCall(name) \/ RemoveDestinationCall(name)
  /\ UNCHANGED adminLog

\* a Logger on stdout whose destinations come and go while it takes entries,
\* up to Quit and after it
NextDestinations ==
  \/ rotateFile \/ write
  \/ DestinationCallStep
  \/ LogStep
  \/ QuitStep

SpecDestinations == InitCodes /\ [][NextDestinations]_vars

(***************************************************************************)
(* The management console (server/manager.go:553-1062).  A command has a   *)
(* name and arguments, decoded from JSON: a value is a string, a number    *)
(* (float64) or null (nil).                                                *)
(***************************************************************************)
Str(s) == [kind |-> "string", v |-> s]
Num(n) == [kind |-> "float64", n |-> n]
Null == [kind |-> "nil"]

\* a required argument (manager.go:619-622)
Arg(name, kind) == [Name |-> name, Kind |-> kind]

\* validArguments (manager.go:625-637): "invalid" for false, "valid" for
\* true.  reflect.TypeOf(x) of a nil value is nil, and the call of Kind() on
\* it is a nil dereference: "panic".
RECURSIVE validArguments(_, _)
validArguments(args, required) ==
  IF required = <<>> THEN "valid"
  ELSE LET f == Head(required) IN
       IF f.Name \notin DOMAIN args THEN "invalid"
       ELSE IF args[f.Name].kind = "nil" THEN "panic"
       ELSE IF args[f.Name].kind # f.Kind THEN "invalid"
       ELSE validArguments(args, Tail(required))

\* the responses: a status, an error and a payload, which is a text with the
\* rows of its table
STATUS_OK == "success"
STATUS_FAIL == "failure"
Ok(text, rows) ==
  [Status |-> STATUS_OK, Error |-> [text |-> "", about |-> <<>>],
   Payload |-> [text |-> text, rows |-> rows]]
Fail(text, about) ==
  [Status |-> STATUS_FAIL, Error |-> [text |-> text, about |-> about],
   Payload |-> [text |-> "", rows |-> <<>>]]

\* no response: the handler did not return
NoResponse(why) ==
  [Status |-> "none", Error |-> [text |-> why, about |-> <<>>],
   Payload |-> [text |-> "", rows |-> <<>>]]

\* respMissingArgs (manager.go:639-642)
respMissingArgs == Fail("Missing/invalid parameters", <<>>)

\* the command and its response are recorded
respond(cmd, args, resp) ==
  adminLog' = Append(adminLog, [cmd |-> cmd, args |-> args, resp |-> resp])

\* a handler that returns a response and changes nothing
answer(cmd, args, resp) ==
  /\ respond(cmd, args, resp)
  /\ UNCHANGED <<loggerVars, serverVars>>

\* a panic in the handler: no response is returned.  What becomes of the
\* process is up to the caller of Execute, the server of the admin socket,
\* which is not part of the repository: it recovers and goes on, or the
\* process ends.
panic(cmd, args) ==
  /\ respond(cmd, args, NoResponse("panic"))
  /\ srvPc' \in {"running", "stopped"}
  /\ UNCHANGED loggerVars
  /\ UNCHANGED <<tokens, tokenFile, stats, smu, pendingStats, rpcPc, rpcReq,
                 rpcResp, rpcCount, tokSnap, fileSnap, lastOps, statsFile,
                 adminPc, hour, calls, srvNew, loggerVars>>

(***************************************************************************)
(* remote.add, remote.remove and remote.list.                              *)
(***************************************************************************)
\* strconv of a port number
Digit(n) == <<"0", "1", "2", "3", "4", "5", "6", "7", "8", "9">>[n + 1]
itoa(n) == IF n < 10 THEN <<Digit(n)>> ELSE <<Digit(n \div 10), Digit(n % 10)>>

\* the key of a backend: <backend>://<host>:<port>
getCleanBackendKey(backend, host, port) ==
  backend \o <<":", "/", "/">> \o host \o <<":">> \o itoa(port)

\* the characters in the order of their codes, and the order of sort.Strings
CharOrder == <<" ", ".", "/", "0", "1", "2", "3", "4", "5", "6", "7", "8", "9", ":", "H", "I", "J", "R", "S", "T", "a", "b", "c", "d", "e", "f", "g", "h", "i", "j", "k", "l", "m", "n", "o", "p", "q", "r", "s", "t", "u", "v", "w", "x", "y", "z">>
Ord(c) == CHOOSE i \in DOMAIN CharOrder : CharOrder[i] = c
RECURSIVE stringLess(_, _)
stringLess(a, b) ==
  IF b = <<>> THEN FALSE
  ELSE IF a = <<>> THEN TRUE
  ELSE IF Head(a) # Head(b) THEN Ord(Head(a)) < Ord(Head(b))
  ELSE stringLess(Tail(a), Tail(b))

\* sort.Strings (journal.go:218)
RECURSIVE sortStrings(_)
sortStrings(names) ==
  IF names = {} THEN <<>>
  ELSE LET x == CHOOSE n \in names : \A m \in names : m = n \/ stringLess(n, m)
       IN <<x>> \o sortStrings(names \ {x})

\* l.logfile.Name() of the file of date d
logfileName(d) == <<"j", "o", "u", "r", "n", "a", "l", "_">> \o itoa(d) \o <<".", "l", "o", "g">>

\* logger.ListDestinations (journal.go:197-221)
ListDestinations ==
  LET localDst == CASE config.Out = OUT_STDOUT -> <<<<"s", "t", "d", "o", "u", "t">>>>
                    [] config.Out = OUT_FILE -> <<logfileName(logfile)>>
                    [] config.Out = OUT_FILE_AND_STDOUT ->
                         <<<<"s", "t", "d", "o", "u", "t">>, logfileName(logfile)>>
                    [] OTHER -> <<>>
  IN localDst \o sortStrings(remoteWriters)

Journald == <<"j", "o", "u", "r", "n", "a", "l", "d">>

\* CmdRemoteAdd (manager.go:930-1001); connect.ToJournald (part_002:13-31)
\* returns a client or an error; logServer.AddDestination (utils.go:578-583)
\* takes the server mutex and calls the Logger's AddDestination
CmdRemoteAdd(cmd, args) ==
  LET v == validArguments(args, <<Arg("backend", "string"), Arg("host", "string"),
                                   Arg("port", "float64")>>)
  IN
  IF v = "panic" THEN panic(cmd, args)
  ELSE IF v = "invalid" THEN answer(cmd, args, respMissingArgs)
  ELSE
    LET backend == args["backend"].v
        host == args["host"].v
        port == args["port"].n
        backendKey == getCleanBackendKey(Journald, host, port)
    IN
    IF ToLower(backend) = Journald
      THEN LET w == validArguments(args, <<Arg("service", "string"),
                                           Arg("instance", "string"),
                                           Arg("token", "string")>>)
           IN
           IF w = "panic" THEN panic(cmd, args)
           ELSE IF w = "invalid" THEN answer(cmd, args, respMissingArgs)
           ELSE \/ answer(cmd, args,
                          Fail("ConnectToLogServer: could not establish a gRPC connection",
                               <<>>))
                \/ /\ smu = "free"
                   /\ AddDestinationCall(backendKey)
                   /\ respond(cmd, args,
                              IF lastCall'.err.nil
                                THEN Ok("added remote backend", <<<<backendKey>>>>)
                                ELSE Fail("AddDestination: destination already present",
                                          backendKey))
    ELSE IF ToLower(backend) = <<"k", "a", "f", "k", "a">>
      THEN answer(cmd, args, Fail("Not implemented yet", <<>>))
    ELSE answer(cmd, args, Fail("Unknown backend", backend))

\* CmdRemoteRemove (manager.go:1003-1034); logServer.RemoveDestination
\* (utils.go:594-599)
CmdRemoteRemove(cmd, args) ==
  LET v == validArguments(args, <<Arg("backend", "string"), Arg("host", "string"),
                                   Arg("port", "float64")>>)
  IN
  IF v = "panic" THEN panic(cmd, args)
  ELSE IF v = "invalid" THEN answer(cmd, args, respMissingArgs)
  ELSE
    LET backendKey == getCleanBackendKey(args["backend"].v, args["host"].v,
                                         args["port"].n)
    IN /\ smu = "free"
       /\ RemoveDestinationCall(backendKey)
       /\ respond(cmd, args,
                  IF lastCall'.err.nil
                    THEN Ok("removed remote backend", <<<<backendKey>>>>)
                    ELSE Fail("RemoveDestination: unknown destination", backendKey))

\* CmdRemoteList (manager.go:1037-1062); logServer.ListDestinations
\* (utils.go:586-591): one row for each destination, in the order of the list
CmdRemoteList(cmd, args) ==
  /\ smu = "free"
  /\ mu = "free"
  /\ answer(cmd, args,
            Ok("destinations currently used by journald",
               [i \in 1..Len(ListDestinations) |-> <<ListDestinations[i]>>]))

(***************************************************************************)
(* tokens.add, tokens.revoke.instance, tokens.revoke.service,              *)
(* tokens.list.instances.                                                  *)
(***************************************************************************)
\* the outcome of the last AddToken or RemoveToken call
lastOp == lastOps'[Len(lastOps')]

\* CmdTokensAdd (manager.go:702-740): the row of the table holds the
\* service, the instance and the token
CmdTokensAdd(cmd, args) ==
  LET v == validArguments(args, <<Arg("service", "string"), Arg("instance", "string")>>)
  IN
  IF v = "panic" THEN panic(cmd, args)
  ELSE IF v = "invalid" THEN answer(cmd, args, respMissingArgs)
  ELSE LET service == args["service"].v
           instance == args["instance"].v
       IN /\ AddToken(service, instance)
          /\ respond(cmd, args,
                     IF lastOp.result = "ok"
                       THEN Ok("added token for",
                               <<<<service, instance, lastOp.token>>>>)
                       ELSE Fail("could not add token: AddToken: token already exists",
                                 lastOp.key))

\* CmdTokensRemoveInstance (manager.go:743-772).  A RemoveToken that waits
\* for the mutex it holds never returns, and neither does the handler.
CmdTokensRemoveInstance(cmd, args) ==
  LET v == validArguments(args, <<Arg("service", "string"), Arg("instance", "string")>>)
  IN
  IF v = "panic" THEN panic(cmd, args)
  ELSE IF v = "invalid" THEN answer(cmd, args, respMissingArgs)
  ELSE /\ RemoveToken(args["service"].v, args["instance"].v)
       /\ respond(cmd, args,
                  IF lastOp.result = "ok"
                    THEN Ok("removed token for", <<<<lastOp.key>>>>)
                  ELSE IF lastOp.result = "blocked" THEN NoResponse("blocked")
                  ELSE Fail("Could not remove token: RemoveToken: no such service/instance",
                            <<>>))

\* logServer.RemoveTokens: all keys with the service as their first part are
\* removed; the token file is as removeTokenFromFile leaves it
RemoveTokens(service) ==
  [k \in {x \in DOMAIN tokens : Split(x, "/")[1] # ToLower(TrimSpace(service))} |->
     tokens[k]]

\* CmdTokensRemoveService (manager.go:775-802)
CmdTokensRemoveService(cmd, args) ==
  LET v == validArguments(args, <<Arg("service", "string")>>) IN
  IF v = "panic" THEN panic(cmd, args)
  ELSE IF v = "invalid" THEN answer(cmd, args, respMissingArgs)
  ELSE /\ smu = "free"
       /\ tokens' = RemoveTokens(args["service"].v)
       /\ respond(cmd, args, Ok("removed all tokens for service",
                                <<<<args["service"].v>>>>))
       /\ UNCHANGED loggerVars
       /\ UNCHANGED <<tokenFile, stats, smu, pendingStats, rpcPc, rpcReq, rpcResp,
                 rpcCount, tokSnap, fileSnap, lastOps, srvPc, statsFile,
                 adminPc, hour, calls, srvNew, loggerVars>>

\* logServer.GetTokens: the tokens of the server
GetTokens == tokens

\* the sum of the 24 values of an array of a Statistic (parsedSums,
\* manager.go:828)
RECURSIVE sumUpTo(_, _)
sumUpTo(a, h) == IF h < 0 THEN 0 ELSE a[h] + sumUpTo(a, h - 1)
parsedSums(plogs, pbytes) ==
  <<ToString(sumUpTo(plogs, NumHours - 1)), ToString(sumUpTo(pbytes, NumHours - 1))>>

\* the orders in which the elements of a set can be visited (the order of
\* `range` over a map is not defined)
Orders(S) ==
  {f \in [1..Cardinality(S) -> S] : \A i, j \in 1..Cardinality(S) : f[i] = f[j] => i = j}

\* the cell of the column Token of tokens.list.instances (manager.go:832):
\* the token
tokenCell(token) == token

\* CmdTokensListInstances (manager.go:805-848).  stats is GetStatistics()
\* (server_statistics.go:53-76), a map of pointers: for a key that has a
\* token and no statistics stats[key] is nil, and stats[key].LastIP is a nil
\* dereference.
CmdTokensListInstances(cmd, args) ==
  LET v == validArguments(args, <<Arg("service", "string")>>) IN
  IF v = "panic" THEN panic(cmd, args)
  ELSE IF v = "invalid" THEN answer(cmd, args, respMissingArgs)
  ELSE
    LET service == ToLower(args["service"].v)
        keys == {k \in DOMAIN GetTokens :
                   Len(Split(k, "/")) = 2 /\ Split(k, "/")[1] = service}
        row(k) == <<Split(k, "/")[2], tokenCell(GetTokens[k]), <<stats[k].LastIP>>,
                    parsedSums(stats[k].LogsParsed, stats[k].LogsParsedBytes)>>
    IN /\ smu = "free"
       /\ IF \E k \in keys : k \notin DOMAIN stats
            THEN panic(cmd, args)
            ELSE \E order \in Orders(keys) :
                   answer(cmd, args,
                          Ok("available instances for service",
                             [i \in 1..Len(order) |-> row(order[i])]))

(***************************************************************************)
(* statistics, tokens.list.services, logs.list and Execute.                *)
(***************************************************************************)
\* the sum of f over the set S
RECURSIVE sumOver(_, _)
sumOver(S, f) ==
  IF S = {} THEN 0
  ELSE LET x == CHOOSE y \in S : TRUE IN f[x] + sumOver(S \ {x}, f)

\* the AggregateStatistics of a service (server_statistics.go:86-108); the
\* share Volume / totalLogVolume is kept as the pair of the two numbers
aggregate(service) ==
  LET keys == {k \in DOMAIN stats : stats[k].Service = service}
      logs == [k \in keys |-> sumUpTo(stats[k].LogsParsed, NumHours - 1)]
      volume == [k \in keys |-> sumUpTo(stats[k].LogsParsedBytes, NumHours - 1)]
      all == [k \in DOMAIN stats |-> sumUpTo(stats[k].LogsParsedBytes, NumHours - 1)]
  IN [Service |-> service, Instances |-> Cardinality(keys),
      Volume |-> sumOver(keys, volume), Logs |-> sumOver(keys, logs),
      Share |-> [num |-> sumOver(keys, volume), den |-> sumOver(DOMAIN stats, all)]]

\* the lists AggregateServiceStatistics can return (server_statistics.go:
\* 79-129).  serviceNames has the services in the order in which `range
\* l.stats` first meets them; sort.Sort orders the slice shares; the loop of
\* lines 124-126 takes the index i of the range, not the value, so that
\* aggro[i] is the service serviceNames[i].
AggregateServiceStatistics ==
  {[i \in 1..Len(serviceNames) |-> aggregate(serviceNames[i])] :
     serviceNames \in Orders({stats[k].Service : k \in DOMAIN stats})}

\* a share as the cell of a table
shareCell(share) == <<ToString(share.num), "/", ToString(share.den)>>

\* CmdStatistics (manager.go:650-699): the rows of the table of the services
\* in the order of the list; the table of the hours is left out
CmdStatistics(cmd, args) ==
  /\ smu = "free"
  /\ \E aggro \in AggregateServiceStatistics :
       answer(cmd, args,
              Ok("journald statistics",
                 [i \in 1..Len(aggro) |->
                    <<aggro[i].Service, <<ToString(aggro[i].Instances)>>,
                      <<ToString(aggro[i].Logs), ToString(aggro[i].Volume)>>,
                      shareCell(aggro[i].Share)>>]))

\* CmdTokensListServices (manager.go:851-879)
CmdTokensListServices(cmd, args) ==
  /\ smu = "free"
  /\ \E aggro \in AggregateServiceStatistics :
       answer(cmd, args,
              Ok("available services",
                 [i \in 1..Len(aggro) |->
                    <<aggro[i].Service,
                      <<ToString(Cardinality({k \in DOMAIN GetTokens :
                                                Split(k, "/")[1] = aggro[i].Service})),
                        ToString(aggro[i].Instances)>>,
                      <<ToString(aggro[i].Logs), ToString(aggro[i].Volume)>>,
                      shareCell(aggro[i].Share)>>]))

\* CmdLogsList (manager.go:882-927) with Logfiles (part_009:9-27): the names
\* of the files of the log folder, sorted, the last `show` of them when the
\* argument show is a positive number
CmdLogsList(cmd, args) ==
  LET tail == IF "show" \in DOMAIN args /\ args["show"].kind = "float64"
                   /\ args["show"].n > 0
                THEN args["show"].n ELSE -1
      all == sortStrings({logfileName(d) : d \in DOMAIN disk})
      names == IF tail > 0 /\ Len(all) >= tail
                 THEN SubSeq(all, Len(all) - tail + 1, Len(all)) ELSE all
  IN answer(cmd, args,
            Ok("available logfiles", [i \in 1..Len(names) |-> <<names[i]>>]))

\* Execute (manager.go:566-616) of the console of a running server
Execute(cmd, args) ==
  /\ srvPc = "running"
  /\ newPc = "returned"
  /\ Len(adminLog) < MaxAdmin
  /\ LET c == ToLower(cmd) IN
     CASE c = <<"s", "t", "a", "t", "i", "s", "t", "i", "c", "s">> -> CmdStatistics(cmd, args)
       [] c = <<"t", "o", "k", "e", "n", "s", ".", "a", "d", "d">> -> CmdTokensAdd(cmd, args)
       [] c = <<"t", "o", "k", "e", "n", "s", ".", "r", "e", "v", "o", "k", "e", ".", "i", "n", "s", "t", "a", "n", "c", "e">> -> CmdTokensRemoveInstance(cmd, args)
       [] c = <<"t", "o", "k", "e", "n", "s", ".", "r", "e", "v", "o", "k", "e", ".", "s", "e", "r", "v", "i", "c", "e">> -> CmdTokensRemoveService(cmd, args)
       [] c = <<"t", "o", "k", "e", "n", "s", ".", "l", "i", "s", "t", ".", "i", "n", "s", "t", "a", "n", "c", "e", "s">> -> CmdTokensListInstances(cmd, args)
       [] c = <<"t", "o", "k", "e", "n", "s", ".", "l", "i", "s", "t", ".", "s", "e", "r", "v", "i", "c", "e", "s">> -> CmdTokensListServices(cmd, args)
       [] c = <<"l", "o", "g", "s", ".", "l", "i", "s", "t">> -> CmdLogsList(cmd, args)
       [] c = <<"r", "e", "m", "o", "t", "e", ".", "a", "d", "d">> -> CmdRemoteAdd(cmd, args)
       [] c = <<"r", "e", "m", "o", "t", "e", ".", "r", "e", "m", "o", "v", "e">> -> CmdRemoteRemove(cmd, args)
       [] c = <<"r", "e", "m", "o", "t", "e", ".", "l", "i", "s", "t">> -> CmdRemoteList(cmd, args)
       [] OTHER -> answer(cmd, args, Fail("Execute: unknown command", cmd))

(***************************************************************************)
(* Specifications of the console.                                          *)
(***************************************************************************)
\* the arguments of remote.add and remote.remove: the backend in two
\* spellings, and one that is not implemented
RemoteArgs ==
  {("backend" :> Str(b)) @@ ("host" :> Str(<<"h">>)) @@ ("port" :> Num(p))
     @@ ("service" :> Str(<<"s">>)) @@ ("instance" :> Str(<<"i">>))
     @@ ("token" :> Str(<<"t1">>)) :
     b \in {<<"j", "o", "u", "r", "n", "a", "l", "d">>, <<"J", "o", "u", "r", "n", "a", "l", "d">>, <<"k", "a", "f", "k", "a">>}, p \in {9, 10}}

RemoteAddStep == \E args \in RemoteArgs : Execute(<<"r", "e", "m", "o", "t", "e", ".", "a", "d", "d">>, args)
RemoteRemoveStep == \E args \in RemoteArgs : Execute(<<"r", "e", "m", "o", "t", "e", ".", "r", "e", "m", "o", "v", "e">>, args)
RemoteListStep == Execute(<<"r", "e", "m", "o", "t", "e", ".", "l", "i", "s", "t">>, <<>>)

\* the console of a running server and the remote destinations
NextRemotes ==
  \/ rotateFile \/ write
  \/ RemoteAddStep
  \/ RemoteRemoveStep
  \/ RemoteListStep

SpecRemotes == InitStats /\ [][NextRemotes]_vars

\* commands and arguments of the console, valid and not: an unknown command,
\* no arguments, an argument of the wrong type, and one that is null
SampleCommands ==
  {<<"n", "o", "p", "e">>, <<"t", "o", "k", "e", "n", "s", ".", "a", "d", "d">>, <<"T", "o", "k", "e", "n", "s", ".", "R", "e", "v", "o", "k", "e", ".", "I", "n", "s", "t", "a", "n", "c", "e">>, <<"r", "e", "m", "o", "t", "e", ".", "a", "d", "d">>}

SampleArgs ==
  {("service" :> Str(<<"u">>)) @@ ("instance" :> Str(<<"i">>)),
   ("service" :> Str(<<"s">>)),
   ("service" :> Str(<<"s">>)) @@ ("instance" :> Num(1)),
   ("service" :> Null) @@ ("instance" :> Str(<<"i">>)),
   ("backend" :> Str(<<"j", "o", "u", "r", "n", "a", "l", "d">>)) @@ ("host" :> Str(<<"h">>)) @@ ("port" :> Str(<<"9">>))}

ExecuteStep == \E cmd \in SampleCommands, args \in SampleArgs : Execute(cmd, args)

\* the console of a running server and its commands, valid and not
NextConsole ==
  \/ rotateFile \/ write
  \/ ExecuteStep

SpecConsole == InitStats /\ [][NextConsole]_vars

\* the member of a statistics file for one instance that has sent `logs`
\* entries of `bytes` bytes in all in the hour 0
statMember(service, instance, logs, bytes) ==
  [name |-> getCleanKey(service, instance),
   value |-> [Service |-> service, Instance |-> instance,
              LogsParsed |-> [i \in 1..NumHours |-> IF i = 1 THEN logs ELSE 0],
              LogsParsedBytes |-> [i \in 1..NumHours |-> IF i = 1 THEN bytes ELSE 0],
              LastIP |-> "ip"]]

\* statistics files of a server that has parsed entries of the services s
\* and t, instance i, in different volumes
StatsFiles ==
  {<<{statMember(<<"s">>, <<"i">>, 1, vs), statMember(<<"t">>, <<"i">>, 1, vt)}>> :
     vs \in 1..3, vt \in 1..3}

\* the state after server.New with the tokens and the statistics of the
\* services s and t
InitListing == \E sf \in StatsFiles : InitLoaded(TwoTokens, sf)

ListingArgs ==
  {("service" :> Str(<<"s">>)) @@ ("instance" :> Str(<<"i">>)),
   ("service" :> Str(<<"t">>)) @@ ("instance" :> Str(<<"j">>))}

StatisticsStep == Execute(<<"s", "t", "a", "t", "i", "s", "t", "i", "c", "s">>, <<>>)
ListServicesStep == Execute(<<"t", "o", "k", "e", "n", "s", ".", "l", "i", "s", "t", ".", "s", "e", "r", "v", "i", "c", "e", "s">>, <<>>)
ListInstancesStep == \E args \in ListingArgs : Execute(<<"t", "o", "k", "e", "n", "s", ".", "l", "i", "s", "t", ".", "i", "n", "s", "t", "a", "n", "c", "e", "s">>, args)
TokensAddStep == \E args \in ListingArgs : Execute(<<"t", "o", "k", "e", "n", "s", ".", "a", "d", "d">>, args)

\* the console of a running server and its listings
NextListing ==
  \/ rotateFile \/ write
  \/ StatisticsStep
  \/ ListServicesStep
  \/ ListInstancesStep
  \/ TokensAddStep

SpecListing == InitListing /\ [][NextListing]_vars

(***************************************************************************)
(* Properties of the Logger pipeline.                                      *)
(***************************************************************************)
\* number of times x occurs in the sequence s
Count(s, x) == Cardinality({i \in DOMAIN s : s[i] = x})

RECURSIVE SumCount(_, _)
SumCount(ds, x) ==
  IF ds = {} THEN 0
  ELSE LET d == CHOOSE y \in ds : TRUE
       IN Count(disk[d], x) + SumCount(ds \ {d}, x)

\* lines of entry e in the files of the log folder, and on stdout
FileLines(e) == SumCount(DOMAIN disk, e)
StdoutLines(e) == Count(stdoutLines, e)

\* C1: once Quit has returned, every entry an ingress call submitted to the
\* Logger it found active (the call added it to the in-flight counter) has
\* exactly one line in the local file when file output is enabled and exactly
\* one line on stdout when stdout is enabled.
C1_ExactlyOneLineAfterQuit ==
  quitPc = "returned" =>
    \A e \in accepted :
      /\ FileOut => FileLines(e) = 1
      /\ stdoutSet => StdoutLines(e) = 1

\* C2: an ingress call that has started always completes in the caller's
\* context: its remaining step is enabled in every state, whatever the
\* ledger holds and whoever holds the Logger mutex.
C2_CallerNeverBlocks ==
  \A c \in Callers : callPc[c] = "pushing" => ENABLED pushToLedgerAdd(c)

\* a call that found the Logger active is about to enqueue while the ledger
\* is full
C2_Witness ==
  \E c \in Callers :
    callPc[c] = "pushing" /\ callTransit[c] /\ Len(ledger) = LedgerCap

\* the entries that reached a sink or are on their way to one
InPipeline ==
  senders \cup {ledger[i] : i \in DOMAIN ledger}
          \cup (IF wrPc \in {"got", "locked"} THEN {wrEntry} ELSE {})
Written ==
  {e \in 1..Len(entries) : FileLines(e) > 0 \/ StdoutLines(e) > 0}

C4_State ==
  /\ quitPc = "idle" => active
  /\ quitPc # "idle" => ~active
  /\ lateCalls \cap (accepted \cup InPipeline \cup Written) = {}
  /\ \A c \in Callers : callEntry[c] \in lateCalls => ~callTransit[c]

\* C4: the active flag is true from New until Quit is called and false ever
\* after, and an ingress call that starts after Quit has returned neither
\* adds to the in-flight counter nor causes a write to a sink.
C4_OneWayLifecycle == []C4_State /\ [][~active => ~active']_vars

\* an ingress call that started after Quit returned has completed
C4_Witness ==
  \E e \in lateCalls : \A c \in Callers : callEntry[c] # e


C3_QuitSteps ==
  /\ quitPc \in {"wait", "lock", "returned"} => ~active
  /\ quitPc = "returned" => cancelled

\* C3: under fair scheduling of the writer, the sending tasks and the caller
\* of Quit, a Quit that has been called returns, with callers still calling
\* and remotes that fail; it has then cleared the active flag, and cancelled
\* the tasks and closed the file under the mutex.
C3_QuitEventuallyReturns ==
  /\ []C3_QuitSteps
  /\ [][quitPc = "wait" /\ quitPc' # "wait" => wg = 0]_vars
  /\ [][quitPc # "returned" /\ quitPc' = "returned"
          => mu = "free" /\ cancelled' /\ ~logfileOpen']_vars
  /\ (quitPc = "wait") ~> (quitPc = "returned")

\* Quit has returned although a remote failed while it was draining and a
\* caller is in the middle of a call
C3_Witness ==
  /\ quitPc = "returned"
  /\ remoteErrors > failures
  /\ \E c \in Callers : callPc[c] = "pushing"

\* the writer finishes the entry it holds
C5_WriteStep == wrPc = "locked" /\ wrPc' = "select"

C6_NewReturnsAfterFirstOpen ==
  /\ readySignals <= 1
  /\ (FileOut /\ newPc \in {"write", "returned"})
       => /\ readySignals = 1
          /\ rotPrev # NoDate
          /\ logfile # NoFile
          /\ FileExists(logfile)
          /\ quitPc # "returned" => logfileOpen

\* New has returned a Logger with file output after an open that failed, and
\* the file has been rotated since
C6_Witness ==
  /\ FileOut
  /\ newPc = "returned"
  /\ openFailures >= 1
  /\ logfile = MaxDay

(***************************************************************************)
(* Properties of the log server.                                           *)
(***************************************************************************)
AuthErrors ==
  {"cannot extract caller credentials", "unknown service/instance", "bad token"}

\* the interceptor finishes with a request that Authorize rejects
C7_AuthFailed ==
  rpcPc = "intercept" /\ rpcPc' # "intercept" /\ Authorize(rpcReq.md) \in AuthErrors

\* the sum of the buckets 0..h of the array a
RECURSIVE SumBuckets(_, _)
SumBuckets(a, h) == IF h < 0 THEN 0 ELSE a[h] + SumBuckets(a, h - 1)

RECURSIVE SumLogsParsed(_)
SumLogsParsed(ks) ==
  IF ks = {} THEN 0
  ELSE LET k == CHOOSE x \in ks : TRUE
       IN SumBuckets(stats[k].LogsParsed, NumHours - 1) + SumLogsParsed(ks \ {k})

\* the answers given by the handler, and those that came with an entry
HandlerAnswers == {n \in DOMAIN rpcResp : rpcResp[n] \notin AuthErrors}
AcceptedAnswers == {n \in DOMAIN rpcResp : rpcResp[n] = "ok"}

\* C7: a request whose authentication fails is answered with the error of
\* Authorize in the same step, and that step leaves the inner Logger, the
\* statistics, the pending statistics updates and the token store as they
\* were; over a run there are as many statistics updates as answers of the
\* handler, and as many entries as requests it accepted.
C7_FailedAuthTouchesNothing ==
  /\ [][C7_AuthFailed =>
          /\ rpcPc' = "idle"
          /\ rpcResp' = Append(rpcResp, Authorize(rpcReq.md))
          /\ UNCHANGED <<loggerVars, stats, pendingStats, tokens, tokenFile>>]_vars
  /\ [](/\ SumLogsParsed(DOMAIN stats) + Cardinality(pendingStats)
             = Cardinality(HandlerAnswers)
        /\ Len(entries) = Cardinality(AcceptedAnswers))

\* a request was accepted and logged, and a later one was refused for its token
C7_Witness ==
  /\ Len(rpcResp) = 2
  /\ rpcResp[1] = "ok"
  /\ rpcResp[2] = "bad token"
  /\ Len(entries) = 1
  /\ SumLogsParsed(DOMAIN stats) = 1

\* the verdict of the interceptor's step on the request in progress
C8_Verdict == IF rpcPc' = "handler" THEN "ok" ELSE rpcResp'[Len(rpcResp')]

\* C8: the request is authorized iff its metadata has service, instance, token
\* and ip, the key lowercase(service)/lowercase(instance) is in the token
\* store and the token equals the stored one; without all the metadata, with
\* an unknown key and with another token the errors are three different ones.
C8_AuthorizeIffExactMatch ==
  [][rpcPc = "intercept" /\ rpcPc' # "intercept" =>
       LET md == rpcReq.md
           whole == md.has /\ Fields \subseteq md.fields
           key == ToLower(md.service) \o <<"/">> \o ToLower(md.instance)
           known == key \in DOMAIN tokens
       IN /\ C8_Verdict = "ok" <=> (whole /\ known /\ tokens[key] = md.token)
          /\ C8_Verdict = "cannot extract caller credentials" <=> ~whole
          /\ C8_Verdict = "unknown service/instance" <=> (whole /\ ~known)
          /\ C8_Verdict = "bad token" <=> (whole /\ known /\ tokens[key] # md.token)
     ]_vars

\* a request with an upper-case service name was authorized after one with
\* the wrong token was refused
C8_Witness ==
  /\ rpcPc = "handler"
  /\ rpcReq.md.service = <<"S">>
  /\ Len(rpcResp) = 1
  /\ rpcResp[1] = "bad token"

\* C9: a RemoveToken call for an absent key fails; one for a present key
\* returns success, and when it is the last token operation the key is
\* neither in the token file nor in memory, so that no request for the key
\* is authorized.
C9_RemoveTokenRevokes ==
  \A n \in DOMAIN lastOps :
    lastOps[n].op = "RemoveToken" =>
      IF ~lastOps[n].present
        THEN lastOps[n].result = "no such service/instance"
        ELSE /\ lastOps[n].result = "ok"
             /\ n = Len(lastOps) =>
                  /\ lastOps[n].key \notin DOMAIN tokens
                  /\ \A k \in DOMAIN tokenFile :
                       Split(tokenFile[k], "\t")[1] # lastOps[n].key
                  /\ \A req \in Requests :
                       (~extractCaller(req.md).err
                          /\ extractCaller(req.md).key = lastOps[n].key)
                         => Authorize(req.md) \in AuthErrors

\* C10: when a successful AddToken for a key is followed by RemoveToken for
\* the same key, the token map and the token file are what they were before
\* the AddToken; an AddToken for a key that has a token fails and the token
\* stays the one the first call stored.
C10_AddThenRemoveRestores ==
  /\ \A n \in DOMAIN lastOps :
       (/\ n = Len(lastOps) /\ n > 1
        /\ lastOps[n].op = "RemoveToken"
        /\ lastOps[n - 1].op = "AddToken" /\ lastOps[n - 1].result = "ok"
        /\ lastOps[n].key = lastOps[n - 1].key)
         => /\ lastOps[n].result = "ok"
            /\ tokens = tokSnap
            /\ tokenFile = fileSnap
  /\ \A n \in DOMAIN lastOps :
       (lastOps[n].op = "AddToken" /\ lastOps[n].present)
         => /\ lastOps[n].result = "exists"
            /\ \E m \in 1..(n - 1) :
                 /\ lastOps[m].op = "AddToken" /\ lastOps[m].result = "ok"
                 /\ lastOps[m].key = lastOps[n].key
                 /\ lastOps[m].token = lastOps[n].token

\* the token operations that hold the log server's mutex across their steps
TokenHolders == {"AddToken", "RemoveToken"}

\* C38: no token operation deadlocks on the log server's mutex: every call of
\* AddToken and RemoveToken, for a present or an absent key, returns without
\* waiting for a mutex it holds itself and leaves the mutex released, so that
\* later calls can take it
C38_TokenOpsReleaseMutex ==
  /\ smu \notin TokenHolders
  /\ \A n \in DOMAIN lastOps : lastOps[n].result # "blocked"
(***************************************************************************)
(* Claims about stop and restart of the log server.                        *)
(***************************************************************************)
\* the metadata of a caller of the service and instance, with the token
RestartMetadata ==
  {[has |-> TRUE, fields |-> Fields, service |-> s, instance |-> i, token |-> t,
    ip |-> "ip"] : s \in RestartServices, i \in Instances, t \in TokenValues}

\* C11: tokens are durable across restart: the token map that the restarted
\* server loads from the token file equals the map in memory at the stop, and
\* a caller is authorized after the restart iff it was before the stop.
C11_TokensDurable ==
  [][srvPc = "stopped" /\ srvPc' = "running" =>
       /\ tokens' = tokens
       /\ \A md \in RestartMetadata :
            (Authorize(md) = "ok") <=> (Authorize(md)' = "ok")]_vars

\* C12: statistics carry over a stop and restart: for every key the hourly
\* log counts and byte volumes that the restarted server loads equal those in
\* memory when the server was stopped with Quit.
C12_StatsCarryOver ==
  [][srvPc = "stopped" /\ srvPc' = "running" =>
       /\ DOMAIN stats' = DOMAIN stats
       /\ \A k \in DOMAIN stats :
            /\ stats'[k].LogsParsed = stats[k].LogsParsed
            /\ stats'[k].LogsParsedBytes = stats[k].LogsParsedBytes]_vars

\* the sum of the log counts of a key, the statistics tasks of the key that
\* have not run yet, and the authenticated RemoteLog calls made with the key
LogsOf(k) ==
  IF k \in DOMAIN stats THEN SumBuckets(stats[k].LogsParsed, NumHours - 1) ELSE 0
PendingOf(k) == Cardinality({p \in pendingStats : p.key = k})
CallsOf(k) == IF k \in DOMAIN calls THEN calls[k] ELSE 0

\* C13: every statistics record has exactly 24 hourly log counts and 24 hourly
\* byte volumes, and for every key the sum of the 24 log counts plus the
\* updates not yet applied equals the number of authenticated RemoteLog calls
\* made with the key: once all updates are applied the sum is that number, and
\* no increment of concurrent calls is lost.
C13_HourlyBucketsSumToCalls ==
  /\ \A k \in DOMAIN stats :
       /\ DOMAIN stats[k].LogsParsed = 0..23
       /\ DOMAIN stats[k].LogsParsedBytes = 0..23
  /\ \A k \in DOMAIN stats \cup DOMAIN calls :
       LogsOf(k) + PendingOf(k) = CallsOf(k)

\* two calls with one key had their updates pending at the same time, in
\* another state both are applied, in the buckets of two hours
C13_Witness ==
  /\ pendingStats = {}
  /\ \E k \in DOMAIN stats :
       /\ CallsOf(k) = 2
       /\ LogsOf(k) = 2
       /\ stats[k].LogsParsed[0] = 1
       /\ stats[k].LogsParsed[1] = 1

\* C14: graceful shutdown drains: when the shutdown through Quit is complete,
\* every entry that RemoteLog accepted and acknowledged has its line in the
\* local sinks of the inner Logger.
C14_ShutdownDrains == srvPc = "stopped" => accepted \subseteq Written

\* C15: no task holds the log server's mutex and the Logger's mutex at the
\* same time.
C15_NeverBothMutexes == ~(smu # "free" /\ mu # "free" /\ smu = mu)


\* no listener of server.New is open and none of its tasks runs
NothingRunning ==
  ~srvNew.unixsrv /\ ~srvNew.listenTCP /\ ~srvNew.dumper /\ ~srvNew.serving

\* C40: a server.New that returns an error leaves nothing running: whichever
\* step failed, every listener it opened has been closed and every task it
\* started has been stopped
C40_FailedNewLeavesNothing == srvNew.pc = "failed" => NothingRunning

\* the same for the failures of the admin socket and of the TCP listener
FailedListenLeavesNothing ==
  (srvNew.pc = "failed" /\ srvNew.err \in {"unix", "tcp"}) => NothingRunning
(***************************************************************************)
(* Claims about the Logger's API.                                          *)
(***************************************************************************)
\* a step that is a call of Log, LogFields or of one of the closures
LogApis == {"Log", "NewCaller", "LogFields", "NewCallerWithFields"}
IsLogCall == lastCall' # lastCall /\ lastCall'.api \in LogApis

\* the formatted payload of the call, and whether the call has one that can
\* be encoded
Payload(call) == IF call.api \in {"Log", "NewCaller"} THEN call.arg ELSE call.arg.json
Encodable(call) == call.api \in {"Log", "NewCaller"} \/ call.arg.ok

\* the call returned an error with the payload as its message iff the code
\* is an error code or unknown, and an active Logger got the caller's entry
ErrorIffErrorFlag(call) ==
  /\ ~call.err.nil <=> getMsgCode(call.code).Error
  /\ ~call.err.nil => call.err.msg = Payload(call)
  /\ call.active <=> active
  /\ IF call.active
       THEN /\ call.submitted = {call.entry}
            /\ senders' = senders \cup {call.entry}
            /\ wg' = wg + 1
            /\ content'[call.entry][COL_MSG] = Payload(call)
            /\ content'[call.entry][COL_MSG_TYPE_INT] = <<ToString(call.code)>>
       ELSE /\ call.submitted = {}
            /\ UNCHANGED <<senders, wg, ledger>>

\* C16 as stated: for every code and every Logger state Log, LogFields and the
\* closures return an error whose message is the formatted payload iff the
\* code is an error code or unknown, and nil otherwise; an active Logger gets
\* the entry in both cases.
C16_ErrorIffErrorFlag == [][IsLogCall => ErrorIffErrorFlag(lastCall')]_vars

\* C16: the same for Log, the NewCaller closures and for the LogFields calls
\* whose fields can be encoded as JSON; a LogFields call whose fields cannot be
\* encoded returns an error that says so, whatever the code, and an active
\* Logger gets an entry of the caller system with code 1 instead.
C16_ErrorIffErrorFlagWhenEncodable ==
  [][IsLogCall =>
       IF Encodable(lastCall') THEN ErrorIffErrorFlag(lastCall')
       ELSE /\ ~lastCall'.err.nil
            /\ lastCall'.err.msg = MarshalError
            /\ lastCall'.active <=> active
            /\ IF lastCall'.active
                 THEN /\ senders' = senders \cup {lastCall'.entry}
                      /\ wg' = wg + 1
                      /\ entries'[lastCall'.entry] = "system"
                      /\ content'[lastCall'.entry][COL_MSG_TYPE_INT] = <<"1">>
                 ELSE UNCHANGED <<senders, wg, ledger>>]_vars

\* a Logger that has quit was given fields with an unknown code: it returned
\* the payload as an error and submitted nothing
C16_Witness ==
  /\ lastCall.api = "LogFields"
  /\ lastCall.arg.ok
  /\ lastCall.code = 5
  /\ ~lastCall.active
  /\ lastCall.err = [nil |-> FALSE, msg |-> <<"{}">>]
  /\ senders = {}

\* the documented default table: the flag of every code, and the names that
\* are spelled out
DocumentedError(c) ==
  c \in {1, 2, 3, 4, 10, 999} \cup (400..451) \cup (500..511)
DocumentedNames ==
  (0 :> "Notification") @@ (1 :> "GeneralError") @@ (2 :> "ConfigurationError")
    @@ (3 :> "FailedAction") @@ (4 :> "UserError") @@ (10 :> "CatastrophicFailure")
    @@ (999 :> "Exception/Unintended")

\* C19: a code of the default table resolves to its documented name and error
\* flag, and a code that is not in the Logger's table resolves to the name
\* UNKNOWN with the error flag.
C19_CodeResolution ==
  [][/\ \A c \in DOMAIN defaultCodes :
          /\ defaultCodes[c].Error = DocumentedError(c)
          /\ c \in DOMAIN DocumentedNames => defaultCodes[c].Type = DocumentedNames[c]
     /\ lastCall' # lastCall /\ lastCall'.api \in {"Log", "NewCaller"} =>
          LET c == lastCall'.code IN
          /\ codes = defaultCodes /\ c \in DOMAIN defaultCodes =>
               /\ lastCall'.name = defaultCodes[c].Type
               /\ ~lastCall'.err.nil <=> DocumentedError(c)
          /\ c \notin DOMAIN codes =>
               /\ lastCall'.name = "UNKNOWN"
               /\ ~lastCall'.err.nil]_vars

\* the supplied codes that UseCustomCodes is to take
InRange(supplied) == {c \in DOMAIN supplied : c > 1 /\ c < 999}

\* C20: UseCustomCodes replaces or adds exactly the supplied codes strictly
\* between 1 and 999 and leaves every other entry of the table as it was: the
\* entries of 0, 1 and 999 and the resolution of the codes below 0 and above
\* 999 are the same after the call as before; no other call changes the table.
C20_UseCustomCodesFrame ==
  [][IF lastCall' # lastCall /\ lastCall'.api = "UseCustomCodes"
       THEN LET supplied == lastCall'.arg IN
            /\ DOMAIN codes' = DOMAIN codes \cup InRange(supplied)
            /\ \A c \in InRange(supplied) : codes'[c] = supplied[c]
            /\ \A c \in DOMAIN codes' \ InRange(supplied) : codes'[c] = codes[c]
            /\ \A c \in {0, 1, 999} : codes'[c] = codes[c] /\ codes'[c] = defaultCodes[c]
            /\ \A c \in {-2, -1, 1000, 1001} : getMsgCode(c)' = getMsgCode(c)
       ELSE codes' = codes]_vars

\* a map with codes at both ends of the range, beyond it and inside it was
\* supplied: only the code inside it is in the table
C20_Witness ==
  /\ lastCall.api = "UseCustomCodes"
  /\ {-1, 0, 1, 5, 999, 1000} \subseteq DOMAIN lastCall.arg
  /\ codes[5] = lastCall.arg[5]
  /\ codes[0] = defaultCodes[0]
  /\ codes[0] # lastCall.arg[0]
  /\ 1000 \notin DOMAIN codes

\* a value as it is to be emitted: N/A for the empty value, and a space for
\* every control character
Sanitized(v) ==
  IF v = <<>> THEN <<"N", "/", "A">>
  ELSE [i \in DOMAIN v |-> IF v[i] \in ControlChars THEN " " ELSE v[i]]

\* the entries that have a line on stdout or in a file that is not JSON, and
\* those that have a line in a JSON file
TextLines ==
  {stdoutLines[n] : n \in DOMAIN stdoutLines}
    \cup (IF config.JSON THEN {} ELSE {e \in 1..Len(content) : FileLines(e) > 0})
JSONLines == IF config.JSON THEN {e \in 1..Len(content) : FileLines(e) > 0} ELSE {}

\* C17: every emitted line holds the sanitized values of its entry: the text
\* line is, tab after tab, the sanitized values of the columns, so that it has
\* no control character inside a value and is one line, and the members of
\* the JSON line are the sanitized values.
C17_EmittedEntriesAreSanitized ==
  /\ \A e \in TextLines :
       /\ Split(lineText(e), "\t") =
            [i \in DOMAIN defaultCols |-> Sanitized(valueOf(content[e], defaultCols[i]))]
              \o <<<<>>>>
       /\ \A i \in DOMAIN lineText(e) : lineText(e)[i] # "\n"
  /\ \A e \in JSONLines :
       \A i \in DOMAIN defaultCols :
         [name |-> colname(defaultCols[i]),
          value |-> Sanitized(valueOf(content[e], defaultCols[i]))] \in lineJSON(e)

\* the columns an entry given to RawEntry is to have
RequiredCols ==
  {COL_DATE_YYMMDD_HHMMSS_NANO, COL_SERVICE, COL_INSTANCE, COL_CALLER,
   COL_MSG_TYPE_SHORT, COL_MSG_TYPE_INT, COL_MSG_TYPE_STR, COL_MSG, COL_FILE, COL_LINE}

\* C18: RawEntry returns a missing-column error iff the entry lacks one of the
\* required columns; with the error nothing is enqueued and the in-flight
\* counter is as before, and a complete entry given to an active Logger is
\* enqueued exactly once.
C18_RawEntryMissingColumn ==
  [][lastCall' # lastCall /\ lastCall'.api = "RawEntry" =>
       LET call == lastCall' IN
       /\ ~call.err.nil <=> ~(RequiredCols \subseteq DOMAIN call.arg)
       /\ ~call.err.nil =>
            /\ call.err.msg[1] = "RawEntry: missing column"
            /\ UNCHANGED <<wg, senders, ledger, entries, content, accepted>>
       /\ call.err.nil /\ active =>
            /\ senders' = senders \cup {call.entry}
            /\ call.entry \notin senders
            /\ wg' = wg + 1
            /\ content'[call.entry] = call.arg]_vars

\* the resolution of a code by the table of the source, defaultCodes
defaultResolution(code) == lookup(defaultCodes, code)

\* C21: the code table is per-Logger state: a UseCustomCodes call of one
\* Logger leaves the resolution of every code by every other Logger as it
\* was, and a Logger created after the call resolves every code as the
\* default table does.
C21_CodeTablePerLogger ==
  [][/\ lastCall'.api = "UseCustomCodes" =>
          \A n \in 1..Len(loggers) : n # lastCall'.logger =>
             \A code \in SampleCodes :
                getMsgCodeOf(n, code)' = getMsgCodeOf(n, code)
     /\ Len(loggers') > Len(loggers) =>
          \A code \in SampleCodes :
             lookup(codeMaps'[loggers'[Len(loggers')].codes], code)
               = defaultResolution(code)]_vars

(***************************************************************************)
(* Claims about New.                                                       *)
(***************************************************************************)
\* the configurations the specification calls invalid
InvalidConfig(cfg) ==
  \/ cfg.Rotation \notin 0..4
  \/ cfg.Out \notin 0..2
  \/ \E i \in 1..Len(cfg.Columns) : cfg.Columns[i] \notin 0..12
  \/ cfg.Out \in {0, 2} /\ cfg.Folder = "readonly"

\* C22: New returns an error, and starts neither the rotation task nor the
\* writer task, exactly when the rotation constant is outside NONE..ANNUALLY,
\* the output constant outside FILE..FILE_AND_STDOUT, a column code outside
\* 0..12, or the output has a file and the folder is not writable; for every
\* other configuration the Logger it returns is active and has its tasks.
C22_NewErrorIffInvalidConfig ==
  /\ newPc = "failed" =>
       /\ InvalidConfig(config)
       /\ ~lastCall.err.nil
       /\ ~active /\ rotPc = "off" /\ wrPc = "off" /\ nextId = 1
  /\ newPc \notin {"New", "failed"} => ~InvalidConfig(config)
  /\ newPc = "returned" =>
       /\ active
       /\ wrPc # "off"
       /\ config.Out \in {0, 2} => rotPc # "off" /\ logfileOpen

\* New refused a configuration whose only fault is the folder, and in another
\* state it returned a Logger on stdout although the folder is not writable
C22_Witness ==
  /\ newPc = "failed"
  /\ config.Rotation = ROT_ANNUALLY
  /\ config.Out = OUT_FILE_AND_STDOUT
  /\ config.Columns = <<COL_DATE_YYMMDD, COL_LINE>>
  /\ config.Folder = "readonly"
  /\ lastCall.err.msg = <<"New: cannot write to", "readonly">>

(***************************************************************************)
(* Claims about the destinations.                                          *)
(***************************************************************************)
\* the step is a call of the method api on the destinations
IsDestinationCall(api) == lastCall'.api = api /\ lastCall' # lastCall

\* C23: the registered names change only through successful calls:
\* AddDestination(name) fails iff the name is registered, RemoveDestination
\* (name) fails iff it is not, a failing call leaves the mapping as it was, a
\* successful add registers exactly the name and a successful remove removes
\* exactly the name, and no other step changes the mapping; so the registered
\* names are those added successfully and not removed since.
C23_DestinationsChangeBySuccessfulCalls ==
  [][/\ IsDestinationCall("AddDestination") =>
          LET name == lastCall'.arg[1] IN
          /\ ~lastCall'.err.nil <=> name \in remoteWriters
          /\ remoteWriters' = IF lastCall'.err.nil THEN remoteWriters \cup {name}
                                                   ELSE remoteWriters
     /\ IsDestinationCall("RemoveDestination") =>
          LET name == lastCall'.arg[1] IN
          /\ ~lastCall'.err.nil <=> name \notin remoteWriters
          /\ remoteWriters' = IF lastCall'.err.nil THEN remoteWriters \ {name}
                                                   ELSE remoteWriters
     /\ remoteWriters' # remoteWriters =>
          /\ IsDestinationCall("AddDestination") \/ IsDestinationCall("RemoveDestination")
          /\ lastCall'.err.nil]_vars

\* an AddDestination of a registered name failed and both names are registered
C23_Witness ==
  /\ lastCall.api = "AddDestination"
  /\ lastCall.arg = <<"r1">>
  /\ ~lastCall.err.nil
  /\ remoteWriters = {"r1", "r2"}

(***************************************************************************)
(* Claims about the management console.                                    *)
(***************************************************************************)
\* the n-th command is the command name, and it succeeded
IsCommand(n, name) == ToLower(adminLog[n].cmd) = name
Succeeded(n) == adminLog[n].resp.Status = "success"

\* backend, host and port of the n-th command, and the key <b>://<h>:<p>
Triple(n) ==
  <<adminLog[n].args["backend"].v, adminLog[n].args["host"].v,
    adminLog[n].args["port"].n>>
KeyOf(n) == Triple(n)[1] \o <<":", "/", "/">> \o Triple(n)[2] \o <<":">> \o itoa(Triple(n)[3])

\* the names a remote.list listed
Listed(n) == {adminLog[n].resp.Payload.rows[i][1] :
                i \in 1..Len(adminLog[n].resp.Payload.rows)}

\* the n-th command is a remote.remove with the triple of the m-th
RemovesTripleOf(n, m) == IsCommand(n, <<"r", "e", "m", "o", "t", "e", ".", "r", "e", "m", "o", "v", "e">>) /\ Triple(n) = Triple(m)

\* C24: after a successful remote.add with backend b, host h and port p a
\* remote.list contains the key <b>://<h>:<p>, with the local sinks first and
\* the remote names in lexicographic order after them; the next remote.remove
\* with the same backend, host and port succeeds, and a remote.list after it
\* does not contain the key.
C24_RemoteRoundTrip ==
  \A i, j \in 1..Len(adminLog) :
    /\ IsCommand(j, <<"r", "e", "m", "o", "t", "e", ".", "l", "i", "s", "t">>) =>
         LET rows == adminLog[j].resp.Payload.rows IN
         /\ Len(rows) >= 1 /\ rows[1][1] = <<"s", "t", "d", "o", "u", "t">>
         /\ \A a, b \in 2..Len(rows) : a < b => stringLess(rows[a][1], rows[b][1])
    /\ (i < j /\ IsCommand(i, <<"r", "e", "m", "o", "t", "e", ".", "a", "d", "d">>) /\ Succeeded(i)) =>
         /\ (IsCommand(j, <<"r", "e", "m", "o", "t", "e", ".", "l", "i", "s", "t">>)
               /\ \A m \in (i + 1)..(j - 1) : ~RemovesTripleOf(m, i))
              => KeyOf(i) \in Listed(j)
         /\ (RemovesTripleOf(j, i)
               /\ \A m \in (i + 1)..(j - 1) : ~RemovesTripleOf(m, i))
              => /\ Succeeded(j)
                 /\ KeyOf(i) \notin remoteWriters \/ j < Len(adminLog)

\* the commands of the console and the arguments each one requires
Required(c, args) ==
  CASE c = <<"s", "t", "a", "t", "i", "s", "t", "i", "c", "s">> -> {}
    [] c = <<"t", "o", "k", "e", "n", "s", ".", "a", "d", "d">> -> {Arg("service", "string"), Arg("instance", "string")}
    [] c = <<"t", "o", "k", "e", "n", "s", ".", "r", "e", "v", "o", "k", "e", ".", "i", "n", "s", "t", "a", "n", "c", "e">> ->
         {Arg("service", "string"), Arg("instance", "string")}
    [] c = <<"t", "o", "k", "e", "n", "s", ".", "r", "e", "v", "o", "k", "e", ".", "s", "e", "r", "v", "i", "c", "e">> -> {Arg("service", "string")}
    [] c = <<"t", "o", "k", "e", "n", "s", ".", "l", "i", "s", "t", ".", "i", "n", "s", "t", "a", "n", "c", "e", "s">> -> {Arg("service", "string")}
    [] c = <<"t", "o", "k", "e", "n", "s", ".", "l", "i", "s", "t", ".", "s", "e", "r", "v", "i", "c", "e", "s">> -> {}
    [] c = <<"l", "o", "g", "s", ".", "l", "i", "s", "t">> -> {}
    [] c = <<"r", "e", "m", "o", "t", "e", ".", "a", "d", "d">> ->
         {Arg("backend", "string"), Arg("host", "string"), Arg("port", "float64")}
           \cup (IF /\ "backend" \in DOMAIN args
                    /\ args["backend"].kind = "string"
                    /\ ToLower(args["backend"].v) = <<"j", "o", "u", "r", "n", "a", "l", "d">>
                   THEN {Arg("service", "string"), Arg("instance", "string"),
                         Arg("token", "string")}
                   ELSE {})
    [] c = <<"r", "e", "m", "o", "t", "e", ".", "r", "e", "m", "o", "v", "e">> ->
         {Arg("backend", "string"), Arg("host", "string"), Arg("port", "float64")}
    [] c = <<"r", "e", "m", "o", "t", "e", ".", "l", "i", "s", "t">> -> {}

KnownCommands ==
  {<<"s", "t", "a", "t", "i", "s", "t", "i", "c", "s">>, <<"t", "o", "k", "e", "n", "s", ".", "a", "d", "d">>, <<"t", "o", "k", "e", "n", "s", ".", "r", "e", "v", "o", "k", "e", ".", "i", "n", "s", "t", "a", "n", "c", "e">>,
   <<"t", "o", "k", "e", "n", "s", ".", "r", "e", "v", "o", "k", "e", ".", "s", "e", "r", "v", "i", "c", "e">>, <<"t", "o", "k", "e", "n", "s", ".", "l", "i", "s", "t", ".", "i", "n", "s", "t", "a", "n", "c", "e", "s">>, <<"t", "o", "k", "e", "n", "s", ".", "l", "i", "s", "t", ".", "s", "e", "r", "v", "i", "c", "e", "s">>,
   <<"l", "o", "g", "s", ".", "l", "i", "s", "t">>, <<"r", "e", "m", "o", "t", "e", ".", "a", "d", "d">>, <<"r", "e", "m", "o", "t", "e", ".", "r", "e", "m", "o", "v", "e">>, <<"r", "e", "m", "o", "t", "e", ".", "l", "i", "s", "t">>}

Unknown(cmd) == ToLower(cmd) \notin KnownCommands

\* a required argument is absent or is not of the required type
BadArguments(cmd, args) ==
  /\ ~Unknown(cmd)
  /\ \E r \in Required(ToLower(cmd), args) :
       r.Name \notin DOMAIN args \/ args[r.Name].kind # r.Kind

\* the command the step executed
Executed == adminLog'[Len(adminLog')]

\* C25: a command that is unknown, or that lacks a required argument or
\* carries it with the wrong type, is answered with status "failure", for an
\* unknown command with an error that names the command, and the token map,
\* the token file, the statistics and the destinations of the Logger are
\* unchanged.
C25_InvalidCommandFailsAndChangesNothing ==
  [][(Len(adminLog') = Len(adminLog) + 1
        /\ (Unknown(Executed.cmd) \/ BadArguments(Executed.cmd, Executed.args)))
      => /\ Executed.resp.Status = "failure"
         /\ Unknown(Executed.cmd) => Executed.resp.Error.about = Executed.cmd
         /\ UNCHANGED <<tokens, tokenFile, stats, remoteWriters>>]_vars

\* the share a is at least the share b (shares are kept as fractions)
ShareGeq(a, b) == a.num * b.den >= b.num * a.den

\* C26: every list AggregateServiceStatistics can return holds each service
\* of the statistics exactly once, and the share of each service of the list
\* is greater than or equal to the share of the service after it.
C26_ServicesOrderedByShare ==
  \A aggro \in AggregateServiceStatistics :
    /\ \A k \in DOMAIN stats :
         Cardinality({i \in 1..Len(aggro) : aggro[i].Service = stats[k].Service}) = 1
    /\ \A i \in 1..(Len(aggro) - 1) : ShareGeq(aggro[i].Share, aggro[i + 1].Share)

\* the cells of the rows of the response to the n-th command
Cells(n) ==
  LET rows == adminLog[n].resp.Payload.rows IN
  {rows[i][j] : i \in 1..Len(rows), j \in 1..4} \ {<<>>}

\* C27: the complete token (one symbol stands for its 64 characters; a
\* preview is a part of it and never the token itself) is in the response of
\* no admin command other than tokens.add.
C27_TokenDisclosedOnlyByAdd ==
  \A n \in 1..Len(adminLog) :
    ~IsCommand(n, <<"t", "o", "k", "e", "n", "s", ".", "a", "d", "d">>) => Cells(n) \cap TokenValues = {}


\* C39: tokens.list.instances answers with a success response for every
\* service in every state of the server, also when an instance of the service
\* holds a token and has no statistics record: the handler reads no record
\* that does not exist
C39_ListInstancesAlwaysAnswers ==
  \A n \in 1..Len(adminLog) :
    IsCommand(n, <<"t", "o", "k", "e", "n", "s", ".", "l", "i", "s", "t", ".", "i", "n", "s", "t", "a", "n", "c", "e", "s">>) =>
      adminLog[n].resp.Status = STATUS_OK
(***************************************************************************)
(* Claims about the in-flight counter, the file handle and the header.     *)
(***************************************************************************)
\* the entries ingress has accepted and the writer task has not finished:
\* those whose send is still to come, those in the ledger, and the one the
\* writer task has received
Unsent == Cardinality(senders)
BeingWritten == IF wrPc \in {"got", "locked"} THEN 1 ELSE 0
InFlight == Unsent + Len(ledger) + BeingWritten

\* C28: the in-flight counter is never negative and is the number of entries
\* accepted and not finished by the writer task (unsent, in the ledger or
\* being written); a step adds one to it for each entry it accepts and takes
\* one from it for the entry whose writes to the sinks it ends, and changes
\* it in no other way.
C28_CounterIsEntriesInFlight ==
  /\ [](wg >= 0 /\ wg = InFlight)
  /\ [][/\ wg' = wg + Cardinality(accepted' \ accepted) - (doneCount' - doneCount)
        /\ accepted \subseteq accepted'
        /\ accepted' \ accepted \subseteq senders'
        /\ doneCount' \in {doneCount, doneCount + 1}
        /\ doneCount' = doneCount + 1 <=> (wrPc = "locked" /\ wrPc' = "select")]_vars

\* two entries were accepted: the writer task has finished one of them and
\* has received the other
C28_Witness ==
  /\ Cardinality(accepted) = 2
  /\ doneCount = 1
  /\ BeingWritten = 1
  /\ wg = 1

\* the writer task writes the entry it holds to the sinks
WritesEntry == wrPc = "locked" /\ wrPc' = "select"

\* C29: the Logger has one file handle, which the rotation task replaces in
\* one step under the mutex, and whenever the writer task writes an entry
\* to the file the handle is open: it was closed neither by a rotation nor
\* by Quit.
C29_WriterWritesToOpenHandle ==
  [][(WritesEntry /\ logfile # NoFile) => logfileOpen]_vars

\* the rotation task opens the file of the date rotCurrent', and replaces
\* the handle
OpensFile == rotPc = "loop" /\ rotPc' = "swap"
SwapsHandle == rotPc = "swap" /\ rotPc' = "sleep"

\* the number of header lines of the file f
Headers(f) == Cardinality({i \in 1..Len(f) : f[i] = HeaderLine})

Reordered(lines) ==
  \E i, j \in DOMAIN lines :
    /\ i < j
    /\ lines[i] > lines[j]
    /\ entries[lines[i]] = entries[lines[j]]
    /\ entries[lines[i]] \in Callers

\* C36: the pipeline does not keep the order of the calls of a caller: each
\* accepted entry waits in a task of its own, and any of the waiting tasks
\* can be the next to send when the ledger has room, so two entries of one
\* caller can be written in the opposite order; what is kept is the count:
\* no entry is written twice to a sink, and only accepted entries are written
C36_OrderOfCallsNotKept ==
  /\ \A e \in senders : Len(ledger) < LedgerCap => ENABLED Send(e)
  /\ \A e \in 1..Len(entries) :
       /\ StdoutLines(e) <= 1 /\ FileLines(e) <= 1
       /\ StdoutLines(e) + FileLines(e) >= 1 => e \in accepted

\* stdout holds two entries of one caller, the later one first
C36_Witness == Reordered(stdoutLines)

\* the writer task finishes an entry the Logger logged itself
WritesOwnEntry == WritesEntry /\ entries[wrEntry] = "system"

\* C37: the pipeline quiesces when callers stop, also with a remote that
\* fails on every write: the entries the Logger logs itself because of one
\* submitted entry are bounded, so the write of such an entry causes no
\* further entry and takes one off the in-flight counter
C37_SelfLoggingIsBounded ==
  [][WritesOwnEntry => nextId' = nextId /\ wg' = wg - 1]_vars
(***************************************************************************)
(* Claims about the rotation task.                                         *)
(***************************************************************************)
\* an open of the rotation task fails, and the task is back at its loop
\* after it has logged the failure
OpenFails == rotPc = "loop" /\ rotPc' = "log"
BackAtLoop == rotPc = "log" /\ rotPc' = "loop"

\* C31: a failing open of the rotation task leaves the handle and the files
\* as they are, the failure is logged when the Logger is active, and when
\* the task is back at its loop the open is due again, so that the next pass
\* retries it.
C31_OpenFailureRetried ==
  [][/\ OpenFails => UNCHANGED <<logfile, logfileOpen, disk>>
     /\ BackAtLoop =>
          /\ UNCHANGED <<logfile, logfileOpen, disk>>
          /\ rotTransit => Len(entries') = Len(entries) + 1
                             /\ entries'[Len(entries')] = "system"
          /\ rotationDue']_vars

\* a step of the rotation task from its loop
LeavesLoop == rotPc = "loop" /\ rotPc' # "loop"

\* the date differs from that of the previous emission and is the computed
\* next boundary
AtBoundary == today # rotPrev /\ today = rotNext

\* C33: after the initial open the rotation task goes on to open a file
\* exactly when the date differs from the date of the previous emission and
\* is the computed next boundary; with the new handle the opened date becomes
\* the date of the previous emission, and the boundary was computed anew at
\* the open; the dates of the files opened increase, and with rotation NONE
\* no file is opened after the first.
C33_RotationOnlyAtBoundary ==
  [][/\ (LeavesLoop /\ rotPrev # NoDate) =>
          (rotPc' \in {"swap", "log"} <=> AtBoundary)
     /\ OpensFile =>
          /\ rotCurrent' = today
          /\ rotPrev # NoDate => today > rotPrev
          /\ rotPrev # NoDate => config.Rotation # ROT_NONE
          /\ config.Rotation = ROT_DAILY => rotNext' = today + 1
          /\ config.Rotation = ROT_NONE => rotNext' = today
          /\ config.Rotation \notin {ROT_NONE, ROT_DAILY} => rotNext' > today
     /\ SwapsHandle => rotPrev' = rotCurrent /\ logfile' = rotCurrent
     /\ rotPrev' # rotPrev => SwapsHandle]_vars

\* a second file was opened at a boundary: the weekly rotation has opened the
\* file of the Monday
C33_Witness ==
  /\ config.Rotation = ROT_WEEKLY
  /\ rotPrev = 1 /\ logfile = 1
  /\ 0 \in DOMAIN disk /\ 1 \in DOMAIN disk


\* the rotation task starts and, with compression on, sweeps the folder
Sweeps == newPc = "rotateFile" /\ newPc' = "ready"

\* the rotation task compresses the file of the previous date
Archives == rotPc = "compress" /\ rotPc' = "sleep"

\* what a step of the archiver leaves alone: the startup sweep the file of
\* the local date, which the task then opens, and the compression at a
\* rotation every file but that of the previous date, whose handle was
\* replaced before
ArchiverSpares ==
  /\ (Sweeps /\ FileExists(today)) =>
       today \in DOMAIN disk' /\ disk'[today] = disk[today]
  /\ Archives =>
       /\ DOMAIN disk' = DOMAIN disk \ {rotPrev}
       /\ logfile # rotPrev
       /\ disk'[logfile] = disk[logfile]

\* C34: the archiver never compresses or deletes the file that is the
\* Logger's current sink: the file of an open handle is in the folder, and
\* for every rotation frequency the startup sweep skips the file the task
\* then opens and a rotation archives only the closed file of the previous
\* date
C34_ArchiverSparesCurrentFile ==
  /\ [](logfileOpen => FileExists(logfile))
  /\ [][ArchiverSpares]_vars

\* the same for the frequencies whose boundary date with offset 0 is the
\* local date
DailySweepSparesCurrentFile ==
  /\ [](logfileOpen => FileExists(logfile))
  /\ [][config.Rotation \in {ROT_NONE, ROT_DAILY} => ArchiverSpares]_vars

\* the local date is the next boundary date and the rotation task has not
\* gone on to open its file
Pending ==
  /\ rotPrev # NoDate /\ today # rotPrev /\ today = rotNext
  /\ rotPc \in {"sleep", "wait", "loop"}

\* the rotation task is in its long wait and the wait is not over
Asleep == rotPc = "sleep" /\ now < rotWakeAt

\* the task is awake at the boundary and goes on to open the new file within
\* one polling interval
OpensAtBoundary == Pending => ~Asleep /\ clock <= PollSeconds

\* the long wait of the rotation task ends
LongWaitEnds == rotPc = "sleep" /\ rotPc' = "wait"

\* C32: after a successful open the long wait of the rotation task ends one
\* minute before the next boundary, the task is awake when the boundary is
\* reached, and it goes on to open the new file within one polling interval
\* of the date becoming the boundary date, whatever the time of the open
C32_AwakeAtBoundary ==
  /\ []OpensAtBoundary
  /\ [][LongWaitEnds => now = rotNext * DaySeconds - Margin]_vars

\* C35: both tasks of the Logger observe cancellation: once Quit has given
\* the signal, the writer task and the rotation task each terminate, wherever
\* they are, the rotation task in its waits and after a failed open too
C35_TasksObserveCancellation ==
  cancelled ~> (wrPc = "stopped" /\ rotPc = "stopped")

\* the signal is given while the rotation task is about to log a failed open
\* and the writer task waits for an entry
C35_Witness ==
  /\ cancelled
  /\ rotPc = "log"
  /\ wrPc = "select"
=============================================================================
